---- MODULE Spec2Model ----
(***************************************************************************)
(* oz-init: the PID-1 supervisor of an oz sandbox (src/oz-daemon/client.go,*)
(* package ozinit, lines 354-1669).                                        *)
(*                                                                         *)
(* Spec is the whole program: bootstrap (parseArgs, waitForParentReady,    *)
(* runInit), the SIGCHLD reaper with handleChildExit, processSignals,       *)
(* shutdown() and the RunProgram handler, each a task of its own.  FairSpec *)
(* is Spec with weak fairness for init's tasks.  SpecFs is the filesystem   *)
(* build alone (runInit:533-556 and setupFilesystem) over a wider range of  *)
(* whitelists and shared folders.                                           *)
(*                                                                         *)
(* Strings that the code only tests with strings.HasPrefix are sequences   *)
(* of tokens: "${HOME}/.config/x" is <<"${HOME}", "/.config/x">>, and      *)
(* HasPrefix compares leading tokens.  The empty string is <<>>.           *)
(***************************************************************************)
EXTENDS Integers, Sequences, FiniteSets, TLC

VARIABLES
    osEnv,        \* os.Getuid(), os.Getpid() of the init process
    initData,     \* the handshake decoded from stdin (InitData)
    profile,      \* st.profile (the code edits Whitelist and SharedFolders)
    config,       \* st.config
    pc,           \* position of the main goroutine (Main -> parseArgs -> ...)
    exitStatus,   \* -1 while running, else the status given to os.Exit / return
    wlExtras,     \* runInit's wlExtras, the extra_whitelist of setupFilesystem
    fsLog,        \* filesystem build steps executed so far, in order
    bound,        \* whitelist items handed to fs.BindTo so far
    fsErr,        \* setupFilesystem's returned error (TRUE = non-nil)
    st,           \* "nil" until parseArgs has built the initState, then "built"
    stderrOut,    \* the sentinel lines written to stderr ("WAITING", "OK")
    usr1,         \* the parent-ready signal: [sent, notify, inChan, received]
    sigs,         \* SIGTERM/SIGINT: [notify, delivered, dropped]
    server,       \* the ipc.MsgServer: "none", "listening", "running", "closed"
    ipcServer,    \* st.ipcServer: "nil" or "set"
    files,        \* files written by init after the filesystem build
    bootErrors,   \* the fatal bootstrap errors that have occurred
    reaperOn,     \* oz.ReapChildProcs has been called
    xpra,         \* [handle (st.xpra), proc, seenReady]
    xpraReady,    \* counter of the st.xpraReady WaitGroup
    term,         \* dbus-monitor and its two scanners: [monitor, stdout, stderr]
    termReady,    \* counter of the st.termReady WaitGroup
    children,     \* st.children: pid -> "absent", "tracked", "untracked"
    proc,         \* the processes init spawned: pid -> "none", "running",
                  \* "zombie" (exited, not yet reaped), "reaped"
    helpers,      \* exited helper processes (never registered) not yet reaped
    reaper,       \* the SIGCHLD reaper goroutine: [pc, pid, track]
    sigTask,      \* the processSignals goroutine: "off", "recv", "sd1".."sd3"
    shutdownRequested,  \* st.shutdownRequested
    sd,           \* what the invocations of shutdown() did: [calls (the callers
                  \* that entered it), sigint, xpraStop, close (how many
                  \* invocations signalled children, ran xpra stop, closed the server)]
    reqs,         \* the RunProgram requests: id -> [pc, route, pid, reply]
    watchdog,     \* a process named in profile.Watchdog: "never", "running", "exited"
    launch,       \* one run of a launcher (launchApplication,
                  \* launchTerminalApplication, launchTerminalServer) and of
                  \* handleRunProgram around it: [pc, kind, req, cmd, pid, reply, served]
    rsh,          \* one run of handleRunShell
    fwd,          \* handleSetupForwarder, its accept loop and proxyForwarder
    reg,          \* st.lock and the accesses to st.children in progress
    cli           \* a client process of the daemon: GetSocketName's cache and
                  \* environment, or the response stream of a Logs request

fsVars   == <<wlExtras, fsLog, bound, fsErr>>
dataVars == <<osEnv, initData, config>>
bootVars == <<st, stderrOut, usr1, sigs, server, ipcServer, files, bootErrors,
              reaperOn, xpra, xpraReady, term, termReady>>
supVars  == <<children, proc, helpers, reaper, sigTask, shutdownRequested, sd,
              reqs, watchdog>>
ipcVars  == <<launch, rsh, fwd, reg, cli>>
vars     == <<osEnv, initData, profile, config, pc, exitStatus,
              wlExtras, fsLog, bound, fsErr,
              st, stderrOut, usr1, sigs, server, ipcServer, files, bootErrors,
              reaperOn, xpra, xpraReady, term, termReady,
              children, proc, helpers, reaper, sigTask, shutdownRequested, sd,
              reqs, watchdog, launch, rsh, fwd, reg, cli>>

----------------------------------------------------------------------------
(* Bounds of the model. *)
MaxWhitelist == 2       \* longest profile.Whitelist drawn
MaxShared    == 1       \* longest profile.SharedFolders drawn
MaxPids      == 2       \* children init registers in one run
MaxRequests  == 1       \* RunProgram requests received in one run
MaxSignals   == 1       \* SIGTERM/SIGINT deliveries in one run

Pids   == 1..MaxPids
ReqIds == 1..MaxRequests

----------------------------------------------------------------------------
(* Strings as token sequences. *)
HOME == "${HOME}"
XDG  == "${XDG_"

HasPrefix(s, p) == Len(s) >= Len(p) /\ SubSeq(s, 1, Len(p)) = p

SeqsUpTo(S, n) == UNION {[1..k -> S] : k \in 0..n}

RemoveAt(s, i) == SubSeq(s, 1, i - 1) \o SubSeq(s, i + 1, Len(s))

IsPrefixOf(s, t) == Len(s) <= Len(t) /\ SubSeq(t, 1, Len(s)) = s

Item(p, t, s) == [Path |-> p, Target |-> t, Symlink |-> s]

(* The whitelist items and shared folders the inputs are drawn from. *)
WhitelistItems ==
    { Item(<<>>, <<HOME, "/t">>, <<>>),
      Item(<<HOME, "/.config/x">>, <<>>, <<>>),
      Item(<<HOME, "/docs">>, <<"/opt/docs">>, <<>>),
      Item(<<"/etc/ssl/certs">>, <<>>, <<>>),
      Item(<<"/srv/data">>, <<HOME, "/data">>, <<HOME, "/lnk">>),
      Item(<<XDG, "DOWNLOAD_DIR}">>, <<>>, <<>>) }

SharedFolderNames == { <<HOME, "/Music">>, <<XDG, "DOCUMENTS_DIR}">>, <<"/media/usb">> }

----------------------------------------------------------------------------
(* whitelistItemIsEphemeral, client.go:1655-1669 *)
whitelistItemIsEphemeral(wl) ==
    IF wl.Path = <<>> THEN FALSE
    ELSE IF wl.Target # <<>>
         THEN HasPrefix(wl.Target, <<HOME>>) \/ HasPrefix(wl.Target, <<XDG>>)
         ELSE HasPrefix(wl.Path, <<HOME>>) \/ HasPrefix(wl.Path, <<XDG>>)

(* the test of runInit:549 and ProfileHasEphemerals:1648 *)
sharedFolderIsEphemeral(sf) ==
    HasPrefix(sf, <<HOME>>) \/ HasPrefix(sf, <<XDG>>)

(* The loop of setupFilesystem:1478-1486: i runs from len-1 down to 0       *)
(* (here Len down to 1) and deletes entry i when it is ephemeral.           *)
RECURSIVE filterWhitelist(_, _)
filterWhitelist(wlist, i) ==
    IF i < 1 THEN wlist
    ELSE IF wlist[i].Path = <<>> THEN filterWhitelist(wlist, i - 1)
    ELSE IF whitelistItemIsEphemeral(wlist[i])
         THEN filterWhitelist(RemoveAt(wlist, i), i - 1)
         ELSE filterWhitelist(wlist, i - 1)

(* The loop of runInit:547-552 over profile.SharedFolders. *)
RECURSIVE filterSharedFolders(_, _)
filterSharedFolders(sfs, i) ==
    IF i < 1 THEN sfs
    ELSE IF sharedFolderIsEphemeral(sfs[i])
         THEN filterSharedFolders(RemoveAt(sfs, i), i - 1)
         ELSE filterSharedFolders(sfs, i - 1)

(* addSharedFolders, client.go:645-666: one whitelist item per shared       *)
(* folder; spath is the folder with the home prefix removed.                *)
sharedFolderItem(sf) ==
    LET spath == IF HasPrefix(sf, <<HOME>>) \/ HasPrefix(sf, <<XDG>>)
                 THEN Tail(sf) ELSE sf
    IN  Item(<<HOME, "/OZ/Title">> \o spath,
             <<HOME, "/.shared">> \o spath,
             <<HOME>> \o spath)

RECURSIVE addSharedFolders(_, _)
addSharedFolders(extras, sfs) ==
    IF sfs = <<>> THEN extras
    ELSE addSharedFolders(Append(extras, sharedFolderItem(Head(sfs))), Tail(sfs))

(* runInit:540-544, the pulse audio extras *)
pulseExtras ==
    << Item(<<"/run/user/", "${UID}", "/pulse/native">>, <<>>, <<>>),
       Item(<<HOME, "/.config/pulse/cookie">>, <<>>, <<>>),
       Item(<<"/dev/shm/pulse-shm-*">>, <<>>, <<>>) >>

(* bindWhitelist, client.go:1568-1601: the items handed to BindTo when the  *)
(* k-th item is the first whose bind fails (k = 0: none fails).             *)
bindUpTo(wlist, k, src) ==
    LET n == IF k = 0 THEN Len(wlist) ELSE k
        idx == {i \in 1..n : wlist[i].Path # <<>>}
        F[i \in 0..n] ==
            IF i = 0 THEN <<>>
            ELSE IF i \in idx THEN Append(F[i - 1], [src |-> src, item |-> wlist[i]])
                 ELSE F[i - 1]
    IN  F[n]

bindFailPoints(wlist) == {0} \cup {i \in 1..Len(wlist) : wlist[i].Path # <<>>}

(* mountOps of setupFilesystem:1523-1530 *)
mountOps ==
    (IF config.UseFullDev THEN <<"dev_full", "dev_shm">> ELSE <<>>)
    \o <<"dev_pts">>
    \o (IF profile.NoSysProc # TRUE THEN <<"proc", "sys">> ELSE <<>>)

----------------------------------------------------------------------------
(* runInit:533-556: wlExtras, the ephemeral filter of the shared folders    *)
RunInitExtras ==
    /\ pc = "extras"
    /\ LET sfs == IF initData.Ephemeral
                  THEN filterSharedFolders(profile.SharedFolders,
                                           Len(profile.SharedFolders))
                  ELSE profile.SharedFolders
           pulse == IF profile.AudioMode = "pulse" THEN pulseExtras ELSE <<>>
       IN  /\ profile' = [profile EXCEPT !.SharedFolders = sfs]
           /\ wlExtras' = IF Len(sfs) > 0 THEN addSharedFolders(pulse, sfs) ELSE pulse
    /\ pc' = "fs_rootfs"
    /\ UNCHANGED <<dataVars, ipcVars, bootVars, supVars, exitStatus, fsLog, bound, fsErr>>

(* FsStep with the `return err` of a failing step left out: the build goes  *)
(* on to the next step.                                                     *)
FsStepNoAbort(here, name, next) ==
    /\ pc = here
    /\ fsLog' = Append(fsLog, name)
    /\ \E ok \in BOOLEAN : fsErr' = ~ok
    /\ pc' = next
    /\ UNCHANGED <<dataVars, ipcVars, bootVars, supVars, profile, exitStatus, wlExtras, bound>>

(* One step of setupFilesystem that either fails (the build returns the     *)
(* error) or succeeds and goes on to `next`.                                *)
FsStep(here, name, next) ==
    /\ pc = here
    /\ fsLog' = Append(fsLog, name)
    /\ \E ok \in BOOLEAN :
          /\ fsErr' = ~ok
          /\ pc' = IF ok THEN next ELSE "fs_done"
    /\ UNCHANGED <<dataVars, ipcVars, bootVars, supVars, profile, exitStatus, wlExtras, bound>>

(* setupFilesystem:1473 setupRootfs *)
SetupRootfs == FsStep("fs_rootfs", "rootfs", "fs_filter")

(* setupFilesystem:1477-1487, the ephemeral filter of profile.Whitelist *)
EphemeralFilter ==
    /\ pc = "fs_filter"
    /\ IF initData.Ephemeral
       THEN /\ profile' = [profile EXCEPT !.Whitelist =
                              filterWhitelist(profile.Whitelist, Len(profile.Whitelist))]
            /\ fsLog' = Append(fsLog, "filter")
       ELSE UNCHANGED <<profile, fsLog>>
    /\ pc' = "fs_bindExtra"
    /\ UNCHANGED <<dataVars, ipcVars, bootVars, supVars, exitStatus, wlExtras, bound, fsErr>>

BindStep(here, name, wlist, src, next) ==
    /\ pc = here
    /\ fsLog' = Append(fsLog, name)
    /\ \E k \in bindFailPoints(wlist) :
          /\ bound' = bound \o bindUpTo(wlist, k, src)
          /\ fsErr' = (k # 0)
          /\ pc' = IF k = 0 THEN next ELSE "fs_done"
    /\ UNCHANGED <<dataVars, ipcVars, bootVars, supVars, profile, exitStatus, wlExtras>>

(* setupFilesystem:1489 *)
BindExtraWhitelist ==
    BindStep("fs_bindExtra", "bind_extra", wlExtras, "extra", "fs_bindProfile")

(* setupFilesystem:1493 *)
BindProfileWhitelist ==
    BindStep("fs_bindProfile", "bind_profile", profile.Whitelist, "profile", "fs_symlinks")

(* setupFilesystem:1497, createBindSymlinks *)
CreateBindSymlinks == FsStep("fs_symlinks", "symlinks", "fs_blExtra")

(* setupFilesystem:1501 *)
ApplyBlacklistExtra == FsStep("fs_blExtra", "bl_extra", "fs_blProfile")

(* setupFilesystem:1505 *)
ApplyBlacklistProfile ==
    FsStep("fs_blProfile", "bl_profile",
           IF profile.XServerEnabled THEN "fs_xbind" ELSE "fs_chroot")

(* setupFilesystem:1509-1517 *)
BindXpraDir == FsStep("fs_xbind", "xbind", "fs_chroot")

(* setupFilesystem:1519 *)
Chroot == FsStep("fs_chroot", "chroot", "fs_mounts")

(* setupFilesystem:1523-1531 and mountOps.run: the mounts run in order and  *)
(* the first failing one (number k) ends the run.                           *)
RunMountOps ==
    /\ pc = "fs_mounts"
    /\ \E k \in 0..Len(mountOps) :
          /\ fsLog' = fsLog \o (IF k = 0 THEN mountOps ELSE SubSeq(mountOps, 1, k))
          /\ fsErr' = (k # 0)
    /\ pc' = "fs_done"
    /\ UNCHANGED <<dataVars, ipcVars, bootVars, supVars, profile, exitStatus, wlExtras, bound>>

FsNext ==
    \/ RunInitExtras
    \/ SetupRootfs
    \/ EphemeralFilter
    \/ BindExtraWhitelist
    \/ BindProfileWhitelist
    \/ CreateBindSymlinks
    \/ ApplyBlacklistExtra
    \/ ApplyBlacklistProfile
    \/ BindXpraDir
    \/ Chroot
    \/ RunMountOps

----------------------------------------------------------------------------
(* Bootstrap: Main = parseArgs().waitForParentReady().runInit()             *)

Alive == exitStatus = -1

(* strconv.Itoa on a uint32: the decimal digits, most significant first *)
RECURSIVE Itoa(_)
Itoa(n) == IF n < 10 THEN <<n>> ELSE Append(Itoa(n \div 10), n % 10)

(* parseArgsError with the `initData.Uid == 0` test of line 469 left out *)
parseArgsErrorNoZeroTest ==
    IF osEnv.getuid # 0 THEN "uid"
    ELSE IF osEnv.getpid # 1 THEN "pid"
    ELSE IF ~initData.decodeOk THEN "decode"
    ELSE IF initData.UserUid # Itoa(initData.Uid) THEN "user"
    ELSE "none"

(* the first check of parseArgs:452-472 that fails, or "none" *)
parseArgsError ==
    IF osEnv.getuid # 0 THEN "uid"
    ELSE IF osEnv.getpid # 1 THEN "pid"
    ELSE IF ~initData.decodeOk THEN "decode"
    ELSE IF initData.UserUid # Itoa(initData.Uid) \/ initData.Uid = 0 THEN "user"
    ELSE "none"

(* needsDbus, client.go:701-706 *)
needsDbus ==
    \/ profile.AudioMode = "full"
    \/ profile.AudioMode = "speaker"
    \/ profile.EnableNotifications = TRUE
    \/ profile.IsSandboxedTerminal = TRUE

(* log.Error(...) followed by os.Exit(1) *)
Fatal(e) ==
    /\ bootErrors' = bootErrors \cup {e}
    /\ pc' = "exited"
    /\ exitStatus' = 1

(* parseArgs, client.go:449-497 *)
ParseArgs ==
    /\ pc = "parseArgs"
    /\ IF parseArgsError # "none"
       THEN Fatal(parseArgsError) /\ UNCHANGED st
       ELSE /\ st' = "built"
            /\ pc' = "waiting"
            /\ UNCHANGED <<exitStatus, bootErrors>>
    /\ UNCHANGED <<dataVars, ipcVars, profile, fsVars, supVars, stderrOut, usr1, sigs, server,
                   ipcServer, files, reaperOn, xpra, xpraReady, term, termReady>>

(* waitForParentReady:501 *)
WriteWaiting ==
    /\ pc = "waiting"
    /\ stderrOut' = Append(stderrOut, "WAITING")
    /\ pc' = "notifyUsr1"
    /\ UNCHANGED <<dataVars, ipcVars, profile, fsVars, supVars, exitStatus, st, usr1, sigs,
                   server, ipcServer, files, bootErrors, reaperOn, xpra, xpraReady,
                   term, termReady>>

(* waitForParentReady:503-504, signal.Notify(c, SIGUSR1) *)
NotifyUsr1 ==
    /\ pc = "notifyUsr1"
    /\ usr1' = [usr1 EXCEPT !.notify = TRUE]
    /\ pc' = "recvUsr1"
    /\ UNCHANGED <<dataVars, ipcVars, profile, fsVars, supVars, exitStatus, st, stderrOut, sigs,
                   server, ipcServer, files, bootErrors, reaperOn, xpra, xpraReady,
                   term, termReady>>

(* The parent, having read WAITING, sends SIGUSR1 once.  The channel c is   *)
(* unbuffered and the signal package never blocks on a send: the signal     *)
(* reaches init only when init is blocked in the receive of line 506.       *)
ParentSendsUsr1 ==
    /\ Alive
    /\ stderrOut # <<>>
    /\ ~usr1.sent
    /\ usr1' = [usr1 EXCEPT !.sent = TRUE, !.inChan = (pc = "recvUsr1")]
    /\ UNCHANGED <<dataVars, ipcVars, profile, fsVars, supVars, pc, exitStatus, st, stderrOut,
                   sigs, server, ipcServer, files, bootErrors, reaperOn, xpra,
                   xpraReady, term, termReady>>

(* RecvUsr1 with the blocking receive of line 506 left out: init goes on    *)
(* whether or not the signal has arrived                                    *)
RecvUsr1NoWait ==
    /\ pc = "recvUsr1"
    /\ usr1' = [usr1 EXCEPT !.inChan = FALSE, !.notify = FALSE, !.received = usr1.inChan]
    /\ pc' = "runInit"
    /\ UNCHANGED <<dataVars, ipcVars, profile, fsVars, supVars, exitStatus, st, stderrOut, sigs,
                   server, ipcServer, files, bootErrors, reaperOn, xpra, xpraReady,
                   term, termReady>>

(* waitForParentReady:506-510, sig := <-c *)
RecvUsr1 ==
    /\ pc = "recvUsr1"
    /\ usr1.inChan
    /\ usr1' = [usr1 EXCEPT !.inChan = FALSE, !.notify = FALSE, !.received = TRUE]
    /\ pc' = "runInit"
    /\ UNCHANGED <<dataVars, ipcVars, profile, fsVars, supVars, exitStatus, st, stderrOut, sigs,
                   server, ipcServer, files, bootErrors, reaperOn, xpra, xpraReady,
                   term, termReady>>

(* runInit:513-531: signal.Notify(sigs, SIGTERM, os.Interrupt), ipc.NewServer *)
RunInitStart ==
    /\ pc = "runInit"
    /\ sigs' = [sigs EXCEPT !.notify = TRUE]
    /\ \E ok \in BOOLEAN :
          IF ok THEN /\ server' = "listening"
                     /\ pc' = "extras"
                     /\ UNCHANGED <<exitStatus, bootErrors>>
                ELSE Fatal("NewServer") /\ UNCHANGED server
    /\ UNCHANGED <<dataVars, ipcVars, profile, fsVars, supVars, st, stderrOut, usr1,
                   ipcServer, files, reaperOn, xpra, xpraReady, term, termReady>>

(* A bootstrap step of runInit whose failure is fatal. *)
BootStep(here, e, next) ==
    /\ pc = here
    /\ \E ok \in BOOLEAN :
          IF ok THEN pc' = next /\ UNCHANGED <<exitStatus, bootErrors>>
                ELSE Fatal(e)

(* runInit:558-561 *)
AfterSetupFilesystem ==
    /\ pc = "fs_done"
    /\ IF fsErr THEN Fatal("rootfs")
                ELSE pc' = "netSetup" /\ UNCHANGED <<exitStatus, bootErrors>>
    /\ UNCHANGED <<dataVars, ipcVars, profile, fsVars, supVars, st, stderrOut, usr1, sigs,
                   server, ipcServer, files, reaperOn, xpra, xpraReady, term, termReady>>

(* runInit:563-575, network.NetSetup; the guard of line 567 is always true *)
NetSetup ==
    /\ BootStep("netSetup", "network", "hostname")
    /\ UNCHANGED <<dataVars, ipcVars, profile, fsVars, supVars, st, stderrOut, usr1, sigs,
                   server, ipcServer, files, reaperOn, xpra, xpraReady, term, termReady>>

(* runInit:577-584: a Sethostname failure is fatal, a Setdomainname failure *)
(* is only logged *)
SetHostname ==
    /\ BootStep("hostname", "hostname", "setupDbus")
    /\ UNCHANGED <<dataVars, ipcVars, profile, fsVars, supVars, st, stderrOut, usr1, sigs,
                   server, ipcServer, files, reaperOn, xpra, xpraReady, term, termReady>>

(* runInit:586-589 and setupDbus, client.go:708-717 *)
SetupDbus ==
    /\ BootStep("setupDbus", "dbus", "etcFiles")
    /\ UNCHANGED <<dataVars, ipcVars, profile, fsVars, supVars, st, stderrOut, usr1, sigs,
                   server, ipcServer, files, reaperOn, xpra, xpraReady, term, termReady>>

(* runInit:591-593: setupEtcFiles (client.go:677-699), then ReapChildProcs  *)
SetupEtcFiles ==
    /\ pc = "etcFiles"
    /\ files' = files \cup {"/etc"}
    /\ reaperOn' = TRUE
    /\ pc' = "xpra"
    /\ UNCHANGED <<dataVars, ipcVars, profile, fsVars, supVars, exitStatus, st, stderrOut, usr1,
                   sigs, server, ipcServer, bootErrors, xpra, xpraReady, term, termReady>>

(* runInit:595-597 and startXpraServer, client.go:753-799.  xpra.NewServer  *)
(* returning nil and a StderrPipe error exit; a failing Process.Start only  *)
(* warns and releases the ready wait itself.                                *)
StartXpraServer ==
    /\ pc = "xpra"
    /\ IF ~profile.XServerEnabled
       THEN /\ pc' = "dbusSession"
            /\ UNCHANGED <<exitStatus, bootErrors, xpra, xpraReady>>
       ELSE \E outcome \in {"nil", "pipe_err", "start_err", "started"} :
              CASE outcome \in {"nil", "pipe_err"} ->
                     /\ Fatal("xpra")
                     /\ xpraReady' = xpraReady + 1
                     /\ UNCHANGED xpra
                [] outcome = "start_err" ->
                     /\ bootErrors' = bootErrors \cup {"xpra"}
                     /\ xpraReady' = (xpraReady + 1) - 1
                     /\ xpra' = [xpra EXCEPT !.handle = "set", !.proc = "failed"]
                     /\ pc' = "xpraWait"
                     /\ UNCHANGED exitStatus
                [] outcome = "started" ->
                     /\ xpraReady' = xpraReady + 1
                     /\ xpra' = [xpra EXCEPT !.handle = "set", !.proc = "running"]
                     /\ pc' = "xpraWait"
                     /\ UNCHANGED <<exitStatus, bootErrors>>
    /\ UNCHANGED <<dataVars, ipcVars, profile, fsVars, supVars, st, stderrOut, usr1, sigs,
                   server, ipcServer, files, reaperOn, term, termReady>>

(* readXpraOutput, client.go:801-822: the first line containing             *)
(* "xpra is ready." releases the ready wait                                 *)
ReadXpraOutput ==
    /\ Alive
    /\ xpra.proc = "running"
    /\ ~xpra.seenReady
    /\ xpra' = [xpra EXCEPT !.seenReady = TRUE]
    /\ xpraReady' = xpraReady - 1
    /\ UNCHANGED <<dataVars, ipcVars, profile, fsVars, supVars, pc, exitStatus, st, stderrOut,
                   usr1, sigs, server, ipcServer, files, bootErrors, reaperOn, term,
                   termReady>>

(* xpra ends, before or after its ready line: the pipe read by              *)
(* readXpraOutput reaches end of file, where the loop of lines 804-821 ends *)
(* without a call of Done; init, being PID 1, is the one to reap xpra       *)
XpraExits ==
    /\ Alive
    /\ xpra.proc = "running"
    /\ xpra' = [xpra EXCEPT !.proc = "exited"]
    /\ helpers' = helpers + 1
    /\ UNCHANGED <<dataVars, ipcVars, profile, fsVars, pc, exitStatus, st, stderrOut, usr1,
                   sigs, server, ipcServer, files, bootErrors, reaperOn, xpraReady,
                   term, termReady, children, proc, reaper, sigTask,
                   shutdownRequested, sd, reqs, watchdog>>

(* runInit:598-600, st.xpraReady.Wait() *)
XpraWait ==
    /\ pc = "xpraWait"
    /\ xpraReady = 0
    /\ pc' = "dbusSession"
    /\ UNCHANGED <<dataVars, ipcVars, profile, fsVars, supVars, exitStatus, st, stderrOut, usr1,
                   sigs, server, ipcServer, files, bootErrors, reaperOn, xpra,
                   xpraReady, term, termReady>>

(* runInit:602-607 and getDbusSession, client.go:719-751.  dbus-launch has  *)
(* exited when Output returns; its exit is collected either by Output's own *)
(* wait or by the reaper (`stolen`), which then runs handleChildExit on it. *)
GetDbusSession ==
    /\ pc = "dbusSession"
    /\ IF ~needsDbus
       THEN /\ pc' = "sandboxFile"
            /\ UNCHANGED <<exitStatus, bootErrors, helpers>>
       ELSE \E ok \in BOOLEAN, stolen \in BOOLEAN :
              /\ helpers' = IF stolen THEN helpers + 1 ELSE helpers
              /\ IF ok THEN pc' = "sandboxFile" /\ UNCHANGED <<exitStatus, bootErrors>>
                       ELSE Fatal("dbus")
    /\ UNCHANGED <<dataVars, ipcVars, profile, fsVars, st, stderrOut, usr1, sigs, server,
                   ipcServer, files, reaperOn, xpra, xpraReady, term, termReady,
                   children, proc, reaper, sigTask, shutdownRequested, sd, reqs, watchdog>>

(* runInit:609-610, /tmp/oz-sandbox *)
WriteSandboxFile ==
    /\ pc = "sandboxFile"
    /\ files' = files \cup {"/tmp/oz-sandbox"}
    /\ pc' = IF profile.IsSandboxedTerminal THEN "termWaitReady" ELSE "ok"
    /\ UNCHANGED <<dataVars, ipcVars, profile, fsVars, supVars, exitStatus, st, stderrOut, usr1,
                   sigs, server, ipcServer, bootErrors, reaperOn, xpra, xpraReady,
                   term, termReady>>

(* the lowest pid not yet given to a process, 0 when the model has no more *)
FreePid == IF \E p \in Pids : proc[p] = "none"
           THEN CHOOSE p \in Pids : proc[p] = "none" /\ \A q \in Pids : q < p => proc[q] # "none"
           ELSE 0

(* runInit:613-617 and waitTerminalServerReady, client.go:922-969:          *)
(* dbus-monitor is started, termReady.Add(2), two scanner goroutines        *)
WaitTerminalServerReady ==
    /\ pc = "termWaitReady"
    /\ \E ok \in BOOLEAN :
          IF ok THEN /\ term' = [term EXCEPT !.monitor = "running",
                                             !.stdout = "scan", !.stderr = "scan"]
                     /\ termReady' = termReady + 2
                     /\ pc' = "termLaunch"
                     /\ UNCHANGED <<exitStatus, bootErrors>>
                ELSE Fatal("termserver") /\ UNCHANGED <<term, termReady>>
    /\ UNCHANGED <<dataVars, ipcVars, profile, fsVars, supVars, st, stderrOut, usr1, sigs,
                   server, ipcServer, files, reaperOn, xpra, xpraReady>>

(* runInit:618-621 and launchTerminalServer, client.go:824-911, up to and   *)
(* including cmd.Start()                                                    *)
LaunchTerminalServer ==
    /\ pc = "termLaunch"
    /\ \E ok \in BOOLEAN :
          IF ok /\ FreePid # 0
          THEN /\ proc' = [proc EXCEPT ![FreePid] = "running"]
               /\ term' = [term EXCEPT !.pid = FreePid]
               /\ pc' = "termAdd"
               /\ UNCHANGED <<exitStatus, bootErrors>>
          ELSE Fatal("termserver") /\ UNCHANGED <<proc, term>>
    /\ UNCHANGED <<dataVars, ipcVars, profile, fsVars, st, stderrOut, usr1, sigs, server,
                   ipcServer, files, reaperOn, xpra, xpraReady, termReady,
                   children, helpers, reaper, sigTask, shutdownRequested, sd,
                   reqs, watchdog>>

(* addChildProcess, client.go:1340-1344 *)
addChildProcess(pid, track) ==
    [children EXCEPT ![pid] = IF track THEN "tracked" ELSE "untracked"]

(* launchTerminalServer:912, st.addChildProcess(cmd, true) *)
TermAddChild ==
    /\ pc = "termAdd"
    /\ children' = addChildProcess(term.pid, TRUE)
    /\ pc' = "termWait"
    /\ UNCHANGED <<dataVars, ipcVars, profile, fsVars, bootVars, exitStatus, proc, helpers,
                   reaper, sigTask, shutdownRequested, sd, reqs, watchdog>>

(* readTerminalServerCheck, client.go:971-981, on dbus-monitor's stdout: a  *)
(* line naming "org.gnome.Terminal", once the terminal server is up         *)
TermScannerLine ==
    /\ Alive
    /\ term.stdout = "scan"
    /\ term.monitor = "running"
    /\ term.pid # 0
    /\ term' = [term EXCEPT !.stdout = "done"]
    /\ termReady' = termReady - 1
    /\ UNCHANGED <<dataVars, ipcVars, profile, fsVars, supVars, pc, exitStatus, st, stderrOut,
                   usr1, sigs, server, ipcServer, files, bootErrors, reaperOn, xpra,
                   xpraReady>>

(* readTerminalServerCheck on either stream: end of file once dbus-monitor  *)
(* has exited                                                               *)
TermScannerEOF ==
    /\ Alive
    /\ term.monitor = "exited"
    /\ \E stream \in {"stdout", "stderr"} :
          /\ term[stream] = "scan"
          /\ term' = [term EXCEPT ![stream] = "done"]
    /\ termReady' = termReady - 1
    /\ UNCHANGED <<dataVars, ipcVars, profile, fsVars, supVars, pc, exitStatus, st, stderrOut,
                   usr1, sigs, server, ipcServer, files, bootErrors, reaperOn, xpra,
                   xpraReady>>

(* dbus-monitor ends on its own (its bus goes away, or it writes to the     *)
(* pipe a finished scanner has closed)                                      *)
MonitorExits ==
    /\ Alive
    /\ term.monitor = "running"
    /\ term' = [term EXCEPT !.monitor = "exited"]
    /\ helpers' = helpers + 1
    /\ UNCHANGED <<dataVars, ipcVars, profile, fsVars, pc, exitStatus, st, stderrOut, usr1,
                   sigs, server, ipcServer, files, bootErrors, reaperOn, xpra,
                   xpraReady, termReady, children, proc, reaper, sigTask,
                   shutdownRequested, sd, reqs, watchdog>>

(* runInit:623, st.termReady.Wait() *)
TermWait ==
    /\ pc = "termWait"
    /\ termReady = 0
    /\ pc' = "termKill"
    /\ UNCHANGED <<dataVars, ipcVars, profile, fsVars, supVars, exitStatus, st, stderrOut, usr1,
                   sigs, server, ipcServer, files, bootErrors, reaperOn, xpra,
                   xpraReady, term, termReady>>

(* runInit:625-629, cmdtw.Process.Kill() *)
KillMonitor ==
    /\ pc = "termKill"
    /\ IF term.monitor = "running"
       THEN /\ term' = [term EXCEPT !.monitor = "exited"]
            /\ helpers' = helpers + 1
       ELSE UNCHANGED <<term, helpers>>
    /\ pc' = "ok"
    /\ UNCHANGED <<dataVars, ipcVars, profile, fsVars, exitStatus, st, stderrOut, usr1,
                   sigs, server, ipcServer, files, bootErrors, reaperOn, xpra,
                   xpraReady, termReady, children, proc, reaper, sigTask,
                   shutdownRequested, sd, reqs, watchdog>>

(* runInit:633 *)
WriteOK ==
    /\ pc = "ok"
    /\ stderrOut' = Append(stderrOut, "OK")
    /\ pc' = "goSignals"
    /\ UNCHANGED <<dataVars, ipcVars, profile, fsVars, supVars, exitStatus, st, usr1, sigs,
                   server, ipcServer, files, bootErrors, reaperOn, xpra, xpraReady,
                   term, termReady>>

(* runInit:635, go st.processSignals(sigs, s) *)
GoProcessSignals ==
    /\ pc = "goSignals"
    /\ sigTask' = "recv"
    /\ pc' = "setIpc"
    /\ UNCHANGED <<dataVars, ipcVars, profile, fsVars, bootVars, exitStatus, children, proc,
                   helpers, reaper, shutdownRequested, sd, reqs, watchdog>>

(* runInit:637, st.ipcServer = s *)
SetIpcServer ==
    /\ pc = "setIpc"
    /\ ipcServer' = "set"
    /\ pc' = "runServer"
    /\ UNCHANGED <<dataVars, ipcVars, profile, fsVars, supVars, exitStatus, st, stderrOut, usr1,
                   sigs, server, files, bootErrors, reaperOn, xpra, xpraReady, term,
                   termReady>>

(* runInit:639, s.Run() is entered: it serves until the server is closed    *)
(* and returns at once when the server is closed already                    *)
RunServer ==
    /\ pc = "runServer"
    /\ IF server = "closed"
       THEN pc' = "exited" /\ exitStatus' = 0 /\ UNCHANGED server
       ELSE server' = "running" /\ pc' = "serving" /\ UNCHANGED exitStatus
    /\ UNCHANGED <<dataVars, ipcVars, profile, fsVars, supVars, st, stderrOut, usr1, sigs,
                   ipcServer, files, bootErrors, reaperOn, xpra, xpraReady, term,
                   termReady>>

(* runInit:639-643: Run returns because the server was closed; runInit and  *)
(* Main return and the process ends                                         *)
RunReturns ==
    /\ pc = "serving"
    /\ server = "closed"
    /\ pc' = "exited"
    /\ exitStatus' = 0
    /\ UNCHANGED <<dataVars, ipcVars, profile, fsVars, supVars, st, stderrOut, usr1, sigs,
                   server, ipcServer, files, bootErrors, reaperOn, xpra, xpraReady,
                   term, termReady>>

----------------------------------------------------------------------------
(* Supervision: the reaper, the signal listener, shutdown(), RunProgram     *)

(* A process init spawned and registers exits. *)
ChildExits ==
    /\ Alive
    /\ \E p \in Pids :
          /\ proc[p] = "running"
          /\ proc' = [proc EXCEPT ![p] = "zombie"]
    /\ UNCHANGED <<dataVars, ipcVars, profile, fsVars, bootVars, pc, exitStatus, children,
                   helpers, reaper, sigTask, shutdownRequested, sd, reqs, watchdog>>

(* The reaper collects an exited child and enters handleChildExit:          *)
(* client.go:1356-1358, track := st.children[pid].track (false for a pid    *)
(* that is not in the map)                                                  *)
ReapChild ==
    /\ Alive
    /\ reaperOn
    /\ reaper.pc = "idle"
    /\ \E p \in Pids :
          /\ proc[p] = "zombie"
          /\ proc' = [proc EXCEPT ![p] = "reaped"]
          /\ reaper' = [pc |-> "remove", pid |-> p, track |-> (children[p] = "tracked")]
    /\ UNCHANGED <<dataVars, ipcVars, profile, fsVars, bootVars, pc, exitStatus, children,
                   helpers, sigTask, shutdownRequested, sd, reqs, watchdog>>

(* The same for an exited helper (dbus-launch, dbus-monitor): pid 0 stands  *)
(* for a pid that was never registered                                      *)
ReapHelper ==
    /\ Alive
    /\ reaperOn
    /\ reaper.pc = "idle"
    /\ helpers > 0
    /\ helpers' = helpers - 1
    /\ reaper' = [pc |-> "remove", pid |-> 0, track |-> FALSE]
    /\ UNCHANGED <<dataVars, ipcVars, profile, fsVars, bootVars, pc, exitStatus, children,
                   proc, sigTask, shutdownRequested, sd, reqs, watchdog>>

(* removeChildProcess, client.go:1346-1354 *)
removeChildProcess(pid) ==
    IF pid \in Pids THEN [children EXCEPT ![pid] = "absent"] ELSE children

(* handleChildExit:1359 *)
HandleChildExitRemove ==
    /\ Alive
    /\ reaper.pc = "remove"
    /\ children' = removeChildProcess(reaper.pid)
    /\ reaper' = [reaper EXCEPT !.pc = "decide"]
    /\ UNCHANGED <<dataVars, ipcVars, profile, fsVars, bootVars, pc, exitStatus, proc, helpers,
                   sigTask, shutdownRequested, sd, reqs, watchdog>>

(* getProcessExists, client.go:1387-1412: some /proc/<pid>/cmdline has a    *)
(* basename that is one of the names                                        *)
getProcessExists == watchdog = "running"

(* childExitCallsShutdown with the watchdog probe of lines 1367-1380 left   *)
(* out                                                                      *)
childExitCallsShutdownNoProbe(track) ==
    IF \E q \in Pids : children[q] = "tracked" THEN FALSE
    ELSE track = TRUE /\ profile.AutoShutdown = "yes"

(* childExitCallsShutdown with the AutoShutdown test of line 1381 left out *)
childExitCallsShutdownNoAuto(track) ==
    IF \E q \in Pids : children[q] = "tracked" THEN FALSE
    ELSE IF Cardinality(profile.Watchdog) > 0 THEN ~getProcessExists ELSE track

(* handleChildExit:1361-1385: whether shutdown() is called, given the track *)
(* flag read at line 1358                                                   *)
childExitCallsShutdown(track) ==
    IF \E q \in Pids : children[q] = "tracked" THEN FALSE
    ELSE LET track2 == IF Cardinality(profile.Watchdog) > 0
                       THEN ~getProcessExists ELSE track
         IN  track2 = TRUE /\ profile.AutoShutdown = "yes"

HandleChildExitDecide ==
    /\ Alive
    /\ reaper.pc = "decide"
    /\ reaper' = [reaper EXCEPT !.pc = IF childExitCallsShutdown(reaper.track)
                                       THEN "sd1" ELSE "idle"]
    /\ UNCHANGED <<dataVars, ipcVars, profile, fsVars, bootVars, pc, exitStatus, children, proc,
                   helpers, sigTask, shutdownRequested, sd, reqs, watchdog>>

(* A process whose cmdline basename is a watchdog name is started by an     *)
(* application of the sandbox ...                                           *)
WatchdogStarts ==
    /\ Alive
    /\ Cardinality(profile.Watchdog) > 0
    /\ watchdog = "never"
    /\ \E p \in Pids : proc[p] = "running"
    /\ watchdog' = "running"
    /\ UNCHANGED <<dataVars, ipcVars, profile, fsVars, bootVars, pc, exitStatus, children, proc,
                   helpers, reaper, sigTask, shutdownRequested, sd, reqs>>

(* ... and exits; init, being PID 1, is the one to reap it                  *)
WatchdogExits ==
    /\ Alive
    /\ watchdog = "running"
    /\ watchdog' = "exited"
    /\ helpers' = helpers + 1
    /\ UNCHANGED <<dataVars, ipcVars, profile, fsVars, bootVars, pc, exitStatus, children, proc,
                   reaper, sigTask, shutdownRequested, sd, reqs>>

(* A SIGTERM or SIGINT is delivered to init after signal.Notify (line 516). *)
(* The channel sigs is unbuffered: the signal is handed over only when      *)
(* processSignals is blocked in its receive (line 1416), else it is dropped.*)
SignalDelivered ==
    /\ Alive
    /\ sigs.notify
    /\ sigs.delivered < MaxSignals
    /\ IF sigTask = "recv"
       THEN /\ sigTask' = "sd1"
            /\ sigs' = [sigs EXCEPT !.delivered = @ + 1]
       ELSE /\ sigs' = [sigs EXCEPT !.delivered = @ + 1, !.dropped = @ + 1]
            /\ UNCHANGED sigTask
    /\ UNCHANGED <<dataVars, ipcVars, profile, fsVars, pc, exitStatus, st, stderrOut, usr1,
                   server, ipcServer, files, bootErrors, reaperOn, xpra, xpraReady,
                   term, termReady, children, proc, helpers, reaper,
                   shutdownRequested, sd, reqs, watchdog>>

(* shutdown(), client.go:1422-1436, run by caller c: the reaper (called     *)
(* from handleChildExit:1383) or processSignals (line 1418).                *)
callerPc(c) == IF c = "reaper" THEN reaper.pc ELSE sigTask

SetCallerPc(c, v) ==
    IF c = "reaper"
    THEN reaper' = [reaper EXCEPT !.pc = IF v = "ret" THEN "idle" ELSE v]
         /\ UNCHANGED sigTask
    ELSE sigTask' = (IF v = "ret" THEN "recv" ELSE v) /\ UNCHANGED reaper

(* shutdown:1423-1425, the test of st.shutdownRequested *)
ShutdownCheck(c) ==
    /\ Alive
    /\ callerPc(c) = "sd1"
    /\ sd' = [sd EXCEPT !.calls = @ \cup {c}]
    /\ SetCallerPc(c, IF shutdownRequested THEN "ret" ELSE "sd2")
    /\ UNCHANGED <<dataVars, ipcVars, profile, fsVars, bootVars, pc, exitStatus, children, proc,
                   helpers, shutdownRequested, reqs, watchdog>>

(* childrenVector, client.go:1459-1467 *)
childrenVector == {p \in Pids : children[p] # "absent"}

(* shutdown:1426-1429: the flag is set, every child of the snapshot is sent *)
(* SIGINT; sd.signalled collects the pids the signal went to                *)
ShutdownSignal(c) ==
    /\ Alive
    /\ callerPc(c) = "sd2"
    /\ shutdownRequested' = TRUE
    /\ sd' = [sd EXCEPT !.sigint = IF childrenVector # {} THEN @ + 1 ELSE @,
                        !.signalled = @ \cup childrenVector]
    /\ SetCallerPc(c, "sd3")
    /\ UNCHANGED <<dataVars, ipcVars, profile, fsVars, bootVars, pc, exitStatus, children, proc,
                   helpers, reqs, watchdog>>

(* shutdown:1431-1435: shutdownXpra (client.go:1438-1457) runs xpra stop    *)
(* when st.xpra is set; the server is closed when st.ipcServer is set       *)
ShutdownClose(c) ==
    /\ Alive
    /\ callerPc(c) = "sd3"
    /\ sd' = [sd EXCEPT !.xpraStop = IF xpra.handle = "set" THEN @ + 1 ELSE @,
                        !.close = IF ipcServer # "nil" THEN @ + 1 ELSE @]
    /\ server' = IF ipcServer # "nil" THEN "closed" ELSE server
    /\ SetCallerPc(c, "ret")
    /\ UNCHANGED <<dataVars, ipcVars, profile, fsVars, pc, exitStatus, st, stderrOut, usr1, sigs,
                   ipcServer, files, bootErrors, reaperOn, xpra, xpraReady, term,
                   termReady, children, proc, helpers, shutdownRequested, reqs, watchdog>>

(* handleRunProgram:1263-1267: which launcher the request goes to *)
runProgramRoute(noexec) ==
    IF profile.IsSandboxedTerminal THEN "terminal"
    ELSE IF noexec = FALSE THEN "plain"
    ELSE "none"

(* the track argument of addChildProcess: launchTerminalApplication:1055    *)
(* passes false, launchApplication:1166 passes true                         *)
launcherTracks(route) == route = "plain"

(* a server that hands requests to their handlers as soon as it listens *)
DispatchingOnceListening == server \in {"listening", "running"}

(* The server made at runInit:518-523 listens on the control socket; it     *)
(* reads requests and calls the handlers only in s.Run(), runInit:639.      *)
Dispatching == server = "running"

(* A RunProgram request reaches the running server; its handler runs on a   *)
(* task of its own.                                                         *)
RecvRunProgram ==
    /\ Alive
    /\ Dispatching
    /\ \E r \in ReqIds, noexec \in BOOLEAN :
          /\ reqs[r].pc = "none"
          /\ \A q \in ReqIds : q < r => reqs[q].pc # "none"
          /\ reqs' = [reqs EXCEPT ![r] = [pc |-> "launch",
                                          route |-> runProgramRoute(noexec),
                                          pid |-> 0, reply |-> "none"]]
    /\ UNCHANGED <<dataVars, ipcVars, profile, fsVars, bootVars, pc, exitStatus, children, proc,
                   helpers, reaper, sigTask, shutdownRequested, sd, watchdog>>

(* handleRunProgram:1259-1270 with launchTerminalApplication:983-1054 or    *)
(* launchApplication:1063-1165, up to and including cmd.Start()             *)
HandleRunProgramLaunch ==
    /\ Alive
    /\ \E r \in ReqIds :
          /\ reqs[r].pc = "launch"
          /\ IF reqs[r].route = "none"
             THEN /\ reqs' = [reqs EXCEPT ![r].pc = "done", ![r].reply = "Ok"]
                  /\ UNCHANGED proc
             ELSE \E ok \in BOOLEAN :
                    IF ok /\ FreePid # 0
                    THEN /\ proc' = [proc EXCEPT ![FreePid] = "running"]
                         /\ reqs' = [reqs EXCEPT ![r].pc = "add", ![r].pid = FreePid]
                    ELSE /\ reqs' = [reqs EXCEPT ![r].pc = "done", ![r].reply = "Error"]
                         /\ UNCHANGED proc
    /\ UNCHANGED <<dataVars, ipcVars, profile, fsVars, bootVars, pc, exitStatus, children,
                   helpers, reaper, sigTask, shutdownRequested, sd, watchdog>>

(* launchTerminalApplication:1055 / launchApplication:1166, addChildProcess, *)
(* then handleRunProgram:1272, Respond(Ok)                                   *)
HandleRunProgramAdd ==
    /\ Alive
    /\ \E r \in ReqIds :
          /\ reqs[r].pc = "add"
          /\ children' = addChildProcess(reqs[r].pid, launcherTracks(reqs[r].route))
          /\ reqs' = [reqs EXCEPT ![r].pc = "done", ![r].reply = "Ok"]
    /\ UNCHANGED <<dataVars, ipcVars, profile, fsVars, bootVars, pc, exitStatus, proc, helpers,
                   reaper, sigTask, shutdownRequested, sd, watchdog>>

Next ==
    \/ ParseArgs
    \/ WriteWaiting
    \/ NotifyUsr1
    \/ ParentSendsUsr1
    \/ RecvUsr1
    \/ RunInitStart
    \/ FsNext
    \/ AfterSetupFilesystem
    \/ NetSetup
    \/ SetHostname
    \/ SetupDbus
    \/ SetupEtcFiles
    \/ StartXpraServer
    \/ ReadXpraOutput
    \/ XpraExits
    \/ XpraWait
    \/ GetDbusSession
    \/ WriteSandboxFile
    \/ WaitTerminalServerReady
    \/ LaunchTerminalServer
    \/ TermAddChild
    \/ TermScannerLine
    \/ TermScannerEOF
    \/ MonitorExits
    \/ TermWait
    \/ KillMonitor
    \/ WriteOK
    \/ GoProcessSignals
    \/ SetIpcServer
    \/ RunServer
    \/ RunReturns
    \/ ChildExits
    \/ ReapChild
    \/ ReapHelper
    \/ HandleChildExitRemove
    \/ HandleChildExitDecide
    \/ WatchdogStarts
    \/ WatchdogExits
    \/ SignalDelivered
    \/ \E c \in {"reaper", "sig"} : ShutdownCheck(c)
    \/ \E c \in {"reaper", "sig"} : ShutdownSignal(c)
    \/ \E c \in {"reaper", "sig"} : ShutdownClose(c)
    \/ RecvRunProgram
    \/ HandleRunProgramLaunch
    \/ HandleRunProgramAdd

----------------------------------------------------------------------------
(* The inputs. *)
Profiles(wls, sfs, audio, terminal, watchdogs, autos) ==
    [ Whitelist : wls, SharedFolders : sfs,
      XServerEnabled : BOOLEAN, AudioMode : audio,
      NoSysProc : BOOLEAN, EnableNotifications : {FALSE},
      IsSandboxedTerminal : terminal, Watchdog : watchdogs, AutoShutdown : autos ]

FsIdle ==
    /\ wlExtras = <<>>
    /\ fsLog = <<>>
    /\ bound = <<>>
    /\ fsErr = FALSE

BootIdle ==
    /\ ipcServer = "nil"
    /\ files = {}
    /\ bootErrors = {}
    /\ reaperOn = FALSE
    /\ xpra = [handle |-> "nil", proc |-> "none", seenReady |-> FALSE]
    /\ xpraReady = 0
    /\ term = [monitor |-> "none", stdout |-> "off", stderr |-> "off", pid |-> 0]
    /\ termReady = 0

SupIdle ==
    /\ children = [p \in Pids |-> "absent"]
    /\ proc = [p \in Pids |-> "none"]
    /\ helpers = 0
    /\ reaper = [pc |-> "idle", pid |-> 0, track |-> FALSE]
    /\ sigTask = "off"
    /\ shutdownRequested = FALSE
    /\ sd = [calls |-> {}, sigint |-> 0, xpraStop |-> 0, close |-> 0,
             signalled |-> {}]
    /\ reqs = [r \in ReqIds |-> [pc |-> "none", route |-> "none", pid |-> 0,
                                 reply |-> "none"]]
    /\ watchdog = "never"

IpcIdle ==
    /\ launch = [pc |-> "idle"]
    /\ rsh = [pc |-> "idle"]
    /\ fwd = [pc |-> "idle"]
    /\ reg = [pc |-> "idle"]
    /\ cli = [pc |-> "idle"]

(* Init for the whole program: the process has been started, Main has not   *)
(* run yet.                                                                 *)
(* The profiles of whole-program runs: one whitelist, and at most one of    *)
(* the X server, the sandboxed terminal and the watchdog list switched on.  *)
RunProfiles ==
    { p \in Profiles({<<Item(<<HOME, "/.config/x">>, <<>>, <<>>),
                         Item(<<"/etc/ssl/certs">>, <<>>, <<>>)>>},
                     {<<>>}, {"none"}, BOOLEAN, {{}, {"daemonX"}}, {"yes", "no"}) :
        /\ p.NoSysProc = FALSE
        /\ Cardinality({f \in {"x", "term", "wd"} :
                           \/ f = "x" /\ p.XServerEnabled
                           \/ f = "term" /\ p.IsSandboxedTerminal
                           \/ f = "wd" /\ p.Watchdog # {}}) <= 1 }

Init ==
    /\ osEnv \in [getuid : {0, 1000}, getpid : {1, 2}]
    /\ initData \in [decodeOk : BOOLEAN, Uid : {0, 10},
                     UserUid : {<<0>>, <<1, 0>>, <<0, 1, 0>>}, Ephemeral : {TRUE}]
    /\ profile \in RunProfiles
    /\ config \in [UseFullDev : {TRUE}]
    /\ pc = "parseArgs"
    /\ exitStatus = -1
    /\ st = "nil"
    /\ stderrOut = <<>>
    /\ usr1 = [sent |-> FALSE, notify |-> FALSE, inChan |-> FALSE, received |-> FALSE]
    /\ sigs = [notify |-> FALSE, delivered |-> 0, dropped |-> 0]
    /\ server = "none"
    /\ FsIdle
    /\ BootIdle
    /\ SupIdle
    /\ IpcIdle

Spec == Init /\ [][Next]_vars

(* The steps of init's own tasks; the rest of Next is the environment (the  *)
(* parent, signals, children and helpers exiting, clients' requests).       *)
MainNext ==
    \/ ParseArgs \/ WriteWaiting \/ NotifyUsr1 \/ RecvUsr1 \/ RunInitStart
    \/ FsNext \/ AfterSetupFilesystem \/ NetSetup \/ SetHostname \/ SetupDbus
    \/ SetupEtcFiles \/ StartXpraServer \/ XpraWait \/ GetDbusSession
    \/ WriteSandboxFile \/ WaitTerminalServerReady \/ LaunchTerminalServer
    \/ TermAddChild \/ TermWait \/ KillMonitor \/ WriteOK \/ GoProcessSignals
    \/ SetIpcServer \/ RunServer \/ RunReturns

ReaperNext ==
    \/ ReapChild \/ ReapHelper \/ HandleChildExitRemove \/ HandleChildExitDecide
    \/ ShutdownCheck("reaper") \/ ShutdownSignal("reaper") \/ ShutdownClose("reaper")

SignalTaskNext ==
    \/ ShutdownCheck("sig") \/ ShutdownSignal("sig") \/ ShutdownClose("sig")

HandlerNext == HandleRunProgramLaunch \/ HandleRunProgramAdd

ScannerNext == ReadXpraOutput \/ TermScannerLine \/ TermScannerEOF

(* Every task of init that can take a step eventually takes one (the Go     *)
(* scheduler starves no runnable goroutine); the environment owes nothing.  *)
FairSpec ==
    /\ Spec
    /\ WF_vars(MainNext)
    /\ WF_vars(ReaperNext)
    /\ WF_vars(SignalTaskNext)
    /\ WF_vars(HandlerNext)
    /\ WF_vars(ScannerNext)

(* The filesystem build on its own: runInit has reached line 533.           *)
InitFs ==
    /\ osEnv = [getuid |-> 0, getpid |-> 1]
    /\ initData \in [decodeOk : {TRUE}, Uid : {10}, UserUid : {<<1, 0>>},
                     Ephemeral : BOOLEAN]
    /\ profile \in Profiles(SeqsUpTo(WhitelistItems, MaxWhitelist),
                            SeqsUpTo(SharedFolderNames, MaxShared),
                            {"none", "pulse"}, {FALSE}, {{}}, {"yes"})
    /\ config \in [UseFullDev : BOOLEAN]
    /\ pc = "extras"
    /\ exitStatus = -1
    /\ st = "built"
    /\ stderrOut = <<"WAITING">>
    /\ usr1 = [sent |-> TRUE, notify |-> FALSE, inChan |-> FALSE, received |-> TRUE]
    /\ sigs = [notify |-> TRUE, delivered |-> 0, dropped |-> 0]
    /\ server = "listening"
    /\ FsIdle
    /\ BootIdle
    /\ SupIdle
    /\ IpcIdle

SpecFs == InitFs /\ [][FsNext]_vars

----------------------------------------------------------------------------
(* The process launcher: launchTerminalServer, launchTerminalApplication and *)
(* launchApplication with the command each of them builds, and               *)
(* handleRunProgram around the last two.  A path is the sequence of its      *)
(* components and an argument is a one-component sequence, so that           *)
(* path.Join is concatenation and path.Base is the last component.           *)
(* config.DivertSuffix is empty, config.DivertPath is false and              *)
(* profile.DConfPath is empty in every input drawn here.                     *)
MaxLaunches == 2        \* RunProgram requests one launcher run serves

Word(s) == <<s>>
Base(p) == p[Len(p)]
PathJoin(a, b, c) == a \o <<b, c>>

PrefixPath    == <<"usr", "local">>
OzSeccomp     == PathJoin(PrefixPath, "bin", "oz-seccomp")
OzTracer      == PathJoin(PrefixPath, "bin", "oz-seccomp-tracer")
GnomeTerminal == <<"usr", "bin", "gnome-terminal">>
TerminalServer == <<"usr", "lib", "gnome-terminal", "gnome-terminal-server">>
ShellPath     == <<"bin", "bash">>
NoCmd == [argv |-> <<>>, uid |-> 0, gid |-> 0, groups |-> {}, dir |-> "",
          stdin |-> "none"]
NoReq == [path |-> <<>>, pwd |-> "", args |-> <<>>, noexec |-> FALSE]

(* launchApplication:1126-1129 and its two siblings: st.gid, then every gid *)
(* of st.gids; the order of a map iteration is unspecified and the kernel   *)
(* takes the list as a set                                                  *)
launchGroups == {initData.Gid} \cup {initData.Gids[n] : n \in DOMAIN initData.Gids}

(* launchApplication:1155-1160 and its two siblings: cmd.Dir is set only    *)
(* when os.Stat(pwd) succeeds; "" is cmd.Dir left unset, the child then     *)
(* starts in the directory init itself runs in                              *)
launchDir(pwd) ==
    LET p == IF pwd = "" THEN initData.HomeDir ELSE pwd
    IN  IF p \in files THEN p ELSE ""

(* launchArgs without the RejectUserArgs test of lines 1073 and 993 *)
launchArgsKeepUser(cmdArgs) ==
    IF Len(profile.DefaultParams) > 0 THEN profile.DefaultParams \o cmdArgs ELSE cmdArgs

(* launchApplication:1073-1079, launchTerminalApplication:993-999 *)
launchArgs(cmdArgs) ==
    LET a == IF profile.RejectUserArgs THEN <<>> ELSE cmdArgs
    IN  IF Len(profile.DefaultParams) > 0 THEN profile.DefaultParams \o a ELSE a

seccompWrapped == profile.SeccompMode \in {"train", "whitelist", "blacklist"}

(* launchTerminalServer:827-860, 900: the program and its arguments *)
terminalServerArgv ==
    LET mode == profile.SeccompMode
    IN  CASE mode = "train" ->
               <<OzTracer, OzSeccomp, Word("-mode=whitelist"), TerminalServer>>
          [] mode = "whitelist" /\ ~profile.SeccompEnforce ->
               <<OzTracer, OzSeccomp, Word("-mode=whitelist"), TerminalServer>>
          [] mode = "whitelist" /\ profile.SeccompEnforce ->
               <<OzSeccomp, Word("-mode=whitelist"), TerminalServer>>
          [] mode = "blacklist" /\ ~profile.SeccompEnforce ->
               <<OzTracer, OzSeccomp, Word("-mode=blacklist"), TerminalServer>>
          [] mode = "blacklist" /\ profile.SeccompEnforce ->
               <<OzSeccomp, Word("-mode=blacklist"), TerminalServer>>
          [] OTHER -> <<TerminalServer>>

(* launchTerminalServer:824-906, the command before cmd.Start() *)
launchTerminalServerCmd ==
    [argv |-> terminalServerArgv,
     uid |-> initData.Uid, gid |-> initData.Gid, groups |-> launchGroups,
     dir |-> launchDir(""),
     stdin |-> IF seccompWrapped THEN "profile" ELSE "none"]

(* launchApplication:1064-1066, 1086-1115, 1153: the program and its        *)
(* arguments                                                                *)
applicationArgv(cpath0, cmdArgs) ==
    LET cpath == IF cpath0 = <<>> THEN profile.Path ELSE cpath0
        args  == launchArgs(cmdArgs)
        mode  == profile.SeccompMode
    IN  CASE mode = "train" ->
               <<OzTracer, OzSeccomp, Word("-mode=whitelist"), cpath>> \o args
          [] mode = "whitelist" /\ ~profile.SeccompEnforce ->
               <<OzTracer, Word("-r"), Word("-p"), Word("-"), OzSeccomp,
                 Word("-mode=whitelist"), cpath>> \o args
          [] mode = "whitelist" /\ profile.SeccompEnforce ->
               <<OzSeccomp, Word("-mode=whitelist"), cpath>> \o args
          [] mode = "blacklist" /\ ~profile.SeccompEnforce ->
               <<OzTracer, OzSeccomp, Word("-mode=blacklist"), cpath>> \o args
          [] mode = "blacklist" /\ profile.SeccompEnforce ->
               <<OzSeccomp, Word("-mode=blacklist"), cpath>> \o args
          [] OTHER -> <<cpath>> \o args

(* launchApplication:1063-1160, the command before cmd.Start() *)
launchApplicationCmd(cpath, pwd, cmdArgs) ==
    [argv |-> applicationArgv(cpath, cmdArgs),
     uid |-> initData.Uid, gid |-> initData.Gid, groups |-> launchGroups,
     dir |-> launchDir(pwd),
     stdin |-> IF seccompWrapped THEN "profile" ELSE "none"]

(* launchTerminalApplication:983-1049, the command before tcmd.Start():     *)
(* gnome-terminal with the target, or the shell when noexec, behind "--";   *)
(* profile.Seccomp is not read                                              *)
launchTerminalApplicationCmd(cpath0, pwd, cmdArgs, noexec) ==
    LET cpath == IF cpath0 = <<>> THEN profile.Path ELSE cpath0
        args  == launchArgs(cmdArgs)
        head  == <<GnomeTerminal, Word("--hide-menubar"), Word("--")>>
    IN  [argv |-> IF ~noexec THEN head \o <<cpath>> \o args
                             ELSE head \o <<ShellPath>>,
         uid |-> initData.Uid, gid |-> initData.Gid, groups |-> launchGroups,
         dir |-> launchDir(pwd),
         stdin |-> "none"]

(* the track argument of addChildProcess: launchTerminalServer:912 true,    *)
(* launchTerminalApplication:1055 false, launchApplication:1166 true         *)
launcherTrackFlag(kind) ==
    CASE kind = "termserver" -> TRUE
      [] kind = "terminal"   -> FALSE
      [] OTHER               -> TRUE

LaunchOthers == <<dataVars, profile, fsVars, bootVars, exitStatus, helpers, reaper,
                  sigTask, shutdownRequested, sd, reqs, watchdog, rsh, fwd, reg, cli>>

(* runInit:617-618: the call of launchTerminalServer, up to cmd.Start() *)
LaunchServerBuild ==
    /\ pc = "termLaunch"
    /\ launch.pc = "idle"
    /\ profile.IsSandboxedTerminal
    /\ launch' = [launch EXCEPT !.pc = "start", !.kind = "termserver",
                                !.cmd = launchTerminalServerCmd]
    /\ UNCHANGED <<LaunchOthers, pc, children, proc>>

(* handleRunProgram:1259-1270 up to cmd.Start() of the launcher it calls;   *)
(* with neither a sandboxed terminal nor NoExec == false no launcher runs   *)
RunProgramBuild ==
    /\ pc = "serving"
    /\ server = "running"
    /\ launch.pc = "idle"
    /\ launch.served < MaxLaunches
    /\ \E cpath \in {<<>>, <<"usr", "bin", "viewer">>},
          pwd \in {"", "/work", "/gone"},
          cmdArgs \in {<<>>, <<Word("a.txt")>>},
          noexec \in BOOLEAN :
          LET req == [path |-> cpath, pwd |-> pwd, args |-> cmdArgs, noexec |-> noexec]
          IN  IF profile.IsSandboxedTerminal
              THEN launch' = [launch EXCEPT
                                !.pc = "start", !.kind = "terminal", !.req = req,
                                !.pid = 0, !.reply = "none",
                                !.cmd = launchTerminalApplicationCmd(cpath, pwd, cmdArgs, noexec)]
              ELSE IF noexec = FALSE
              THEN launch' = [launch EXCEPT
                                !.pc = "start", !.kind = "plain", !.req = req,
                                !.pid = 0, !.reply = "none",
                                !.cmd = launchApplicationCmd(cpath, pwd, cmdArgs)]
              ELSE launch' = [launch EXCEPT
                                !.pc = "respond", !.kind = "none", !.req = req,
                                !.pid = 0, !.reply = "none", !.cmd = NoCmd,
                                !.err = FALSE]
    /\ UNCHANGED <<LaunchOthers, pc, children, proc>>

(* cmd.Start() of the three launchers (908-911, 1051-1054, 1162-1165) and   *)
(* the error returns before it (pipes, profile JSON)                        *)
LaunchStart ==
    /\ launch.pc = "start"
    /\ \E ok \in BOOLEAN :
          IF ok /\ FreePid # 0
          THEN /\ proc' = [proc EXCEPT ![FreePid] = "running"]
               /\ launch' = [launch EXCEPT !.pc = "add", !.pid = FreePid, !.err = FALSE]
          ELSE /\ launch' = [launch EXCEPT !.pc = "respond", !.err = TRUE]
               /\ UNCHANGED proc
    /\ UNCHANGED <<LaunchOthers, pc, children>>

(* st.addChildProcess(cmd, track) at 912, 1055, 1166 *)
LaunchAddChild ==
    /\ launch.pc = "add"
    /\ children' = addChildProcess(launch.pid, launcherTrackFlag(launch.kind))
    /\ launch' = [launch EXCEPT !.pc = "respond"]
    /\ UNCHANGED <<LaunchOthers, pc, proc>>

(* RunProgramRespond without the err test of handleRunProgram:1270 *)
RunProgramRespondAlwaysOk ==
    /\ launch.pc = "respond"
    /\ launch.kind # "termserver"
    /\ launch' = [launch EXCEPT !.pc = "idle", !.reply = "Ok",
                                !.served = launch.served + 1]
    /\ UNCHANGED <<LaunchOthers, pc, children, proc>>

(* handleRunProgram:1270-1274: Respond(Error) when the launcher returned an *)
(* error, Respond(Ok) otherwise                                            *)
RunProgramRespond ==
    /\ launch.pc = "respond"
    /\ launch.kind # "termserver"
    /\ launch' = [launch EXCEPT !.pc = "idle",
                                !.reply = IF launch.err THEN "Error" ELSE "Ok",
                                !.served = launch.served + 1]
    /\ UNCHANGED <<LaunchOthers, pc, children, proc>>

(* runInit:618-621: launchTerminalServer returned; an error is fatal *)
LaunchServerReturn ==
    /\ launch.pc = "respond"
    /\ launch.kind = "termserver"
    /\ launch' = [launch EXCEPT !.pc = "returned"]
    /\ IF launch.err
       THEN Fatal("termserver")
       ELSE pc' = "termWait" /\ UNCHANGED <<exitStatus, bootErrors>>
    /\ UNCHANGED <<dataVars, profile, fsVars, st, stderrOut, usr1, sigs, server,
                   ipcServer, files, reaperOn, xpra, xpraReady, term, termReady,
                   supVars, rsh, fwd, reg, cli>>

LaunchNext ==
    \/ LaunchServerBuild
    \/ RunProgramBuild
    \/ LaunchStart
    \/ LaunchAddChild
    \/ RunProgramRespond
    \/ LaunchServerReturn

LaunchProfiles ==
    [ Whitelist : {<<>>}, SharedFolders : {<<>>},
      XServerEnabled : {FALSE}, AudioMode : {"none"},
      NoSysProc : {FALSE}, EnableNotifications : {FALSE},
      IsSandboxedTerminal : BOOLEAN, Watchdog : {{}}, AutoShutdown : {"yes"},
      Path : {<<"usr", "bin", "editor">>},
      SeccompMode : {"disabled", "train", "whitelist", "blacklist"},
      SeccompEnforce : BOOLEAN,
      RejectUserArgs : BOOLEAN,
      DefaultParams : {<<>>, <<Word("--safe")>>} ]

LaunchIdle ==
    launch = [pc |-> "idle", kind |-> "none", req |-> NoReq, cmd |-> NoCmd,
              pid |-> 0, reply |-> "none", err |-> FALSE, served |-> 0]

(* init where runInit calls launchTerminalServer (617) and where the server *)
(* of runInit:639 serves requests                                           *)
InitLaunch ==
    /\ osEnv = [getuid |-> 0, getpid |-> 1]
    /\ initData \in [decodeOk : {TRUE}, Uid : {1000}, UserUid : {<<1, 0>>},
                     Ephemeral : {TRUE}, Gid : {1000},
                     Gids : {[n \in {"audio"} |-> 29],
                             [n \in {"audio", "users"} |-> IF n = "audio" THEN 29 ELSE 1000]},
                     HomeDir : {"/home/user"}]
    /\ profile \in LaunchProfiles
    /\ config \in [UseFullDev : {TRUE}]
    /\ pc \in {"termLaunch", "serving"}
    /\ pc = "termLaunch" => profile.IsSandboxedTerminal
    /\ server = IF pc = "serving" THEN "running" ELSE "listening"
    /\ exitStatus = -1
    /\ st = "built"
    /\ stderrOut = <<"WAITING">>
    /\ usr1 = [sent |-> TRUE, notify |-> FALSE, inChan |-> FALSE, received |-> TRUE]
    /\ sigs = [notify |-> TRUE, delivered |-> 0, dropped |-> 0]
    /\ FsIdle
    /\ ipcServer = "nil"
    /\ files \in {{"/home/user", "/work"}, {"/work"}}
    /\ bootErrors = {}
    /\ reaperOn = FALSE
    /\ xpra = [handle |-> "nil", proc |-> "none", seenReady |-> FALSE]
    /\ xpraReady = 0
    /\ term = [monitor |-> "none", stdout |-> "off", stderr |-> "off", pid |-> 0]
    /\ termReady = 0
    /\ SupIdle
    /\ LaunchIdle
    /\ rsh = [pc |-> "idle"]
    /\ fwd = [pc |-> "idle"]
    /\ reg = [pc |-> "idle"]
    /\ cli = [pc |-> "idle"]

SpecLaunch == InitLaunch /\ [][LaunchNext]_vars

----------------------------------------------------------------------------
(* The child-exit policy from the moment the reaper runs: runInit is at     *)
(* line 602, past ReapChildProcs (593), with a profile that has no X server *)
(* and no sandboxed terminal and whose audio mode asks for a D-Bus session. *)
ExitNext ==
    \/ GetDbusSession
    \/ WriteSandboxFile
    \/ WriteOK
    \/ GoProcessSignals
    \/ SetIpcServer
    \/ RunServer
    \/ RunReturns
    \/ ChildExits
    \/ ReapChild
    \/ ReapHelper
    \/ HandleChildExitRemove
    \/ HandleChildExitDecide
    \/ WatchdogStarts
    \/ WatchdogExits
    \/ SignalDelivered
    \/ \E c \in {"reaper", "sig"} : ShutdownCheck(c)
    \/ \E c \in {"reaper", "sig"} : ShutdownSignal(c)
    \/ \E c \in {"reaper", "sig"} : ShutdownClose(c)
    \/ RecvRunProgram
    \/ HandleRunProgramLaunch
    \/ HandleRunProgramAdd

InitExit ==
    /\ osEnv = [getuid |-> 0, getpid |-> 1]
    /\ initData \in [decodeOk : {TRUE}, Uid : {10}, UserUid : {<<1, 0>>},
                     Ephemeral : {TRUE}]
    /\ profile \in Profiles({<<>>}, {<<>>}, {"full"}, {FALSE}, {{}, {"daemonX"}},
                            {"yes", "no"})
    /\ profile.XServerEnabled = FALSE /\ profile.NoSysProc = FALSE
    /\ config \in [UseFullDev : {TRUE}]
    /\ pc = "dbusSession"
    /\ server = "listening"
    /\ exitStatus = -1
    /\ st = "built"
    /\ stderrOut = <<"WAITING">>
    /\ usr1 = [sent |-> TRUE, notify |-> FALSE, inChan |-> FALSE, received |-> TRUE]
    /\ sigs = [notify |-> TRUE, delivered |-> 0, dropped |-> 0]
    /\ FsIdle
    /\ ipcServer = "nil"
    /\ files = {"/etc"}
    /\ bootErrors = {}
    /\ reaperOn = TRUE
    /\ xpra = [handle |-> "nil", proc |-> "none", seenReady |-> FALSE]
    /\ xpraReady = 0
    /\ term = [monitor |-> "none", stdout |-> "off", stderr |-> "off", pid |-> 0]
    /\ termReady = 0
    /\ SupIdle
    /\ IpcIdle

SpecExit == InitExit /\ [][ExitNext]_vars

----------------------------------------------------------------------------
(* handleRunShell, client.go:1277-1317. *)
MaxShells == 2          \* RunShell requests one run serves

NoUcred == [present |-> FALSE, Uid |-> 0, Gid |-> 0]
Ucred(u, g) == [present |-> TRUE, Uid |-> u, Gid |-> g]

runShellRejectionNoConfig(ucred) ==
    IF ~ucred.present THEN "No credentials received for RunShell command"
    ELSE IF ucred.Uid = 0 \/ ucred.Gid = 0
         THEN "Cannot open shell because allowRootShell is disabled"
         ELSE "none"

(* handleRunShell:1278-1283: the message of the Error the request is        *)
(* refused with, "none" when it is let through                              *)
runShellRejection(ucred) ==
    IF ~ucred.present THEN "No credentials received for RunShell command"
    ELSE IF (ucred.Uid = 0 \/ ucred.Gid = 0) /\ config.AllowRootShell # TRUE
         THEN "Cannot open shell because allowRootShell is disabled"
         ELSE "none"

(* handleRunShell:1284-1307: the shell command before ptyStart *)
runShellCmd(ucred, termName) ==
    [argv |-> <<ShellPath, Word("-i")>>,
     uid |-> ucred.Uid, gid |-> ucred.Gid,
     groups |-> IF ucred.Uid # 0 /\ ucred.Gid # 0 THEN launchGroups
                                                  ELSE {initData.Gid},
     dir |-> IF ucred.Uid # 0 /\ ucred.Gid # 0 /\ initData.HomeDir # ""
             THEN initData.HomeDir ELSE "",
     stdin |-> "tty",
     term |-> termName]

ShellOthers == <<dataVars, profile, fsVars, bootVars, pc, exitStatus, helpers, reaper,
                 sigTask, shutdownRequested, sd, reqs, watchdog, launch, fwd, reg, cli>>

(* handleRunShell:1277-1307: the request arrives and is refused, or the     *)
(* shell command is built                                                   *)
RunShellRecv ==
    /\ pc = "serving"
    /\ server = "running"
    /\ rsh.pc = "idle"
    /\ rsh.served < MaxShells
    /\ \E ucred \in {NoUcred, Ucred(0, 0), Ucred(0, 1000), Ucred(1000, 0),
                     Ucred(1000, 1000)},
          termName \in {"", "xterm"} :
          IF runShellRejection(ucred) # "none"
          THEN rsh' = [rsh EXCEPT !.pc = "idle", !.ucred = ucred, !.cmd = NoCmd,
                                  !.pid = 0, !.reply = "Error", !.fd = FALSE,
                                  !.msg = runShellRejection(ucred),
                                  !.before = children,
                                  !.served = rsh.served + 1]
          ELSE rsh' = [rsh EXCEPT !.pc = "ptyStart", !.ucred = ucred,
                                  !.cmd = runShellCmd(ucred, termName),
                                  !.pid = 0, !.reply = "none", !.fd = FALSE,
                                  !.msg = "none", !.before = children]
    /\ UNCHANGED <<ShellOthers, children, proc>>

(* handleRunShell:1309-1313 with ptyStart:1319-1338: pty.Open or c.Start    *)
(* fails and the error is the reply, or the shell runs on the slave side    *)
RunShellPtyStart ==
    /\ rsh.pc = "ptyStart"
    /\ \E ok \in BOOLEAN :
          IF ok /\ FreePid # 0
          THEN /\ proc' = [proc EXCEPT ![FreePid] = "running"]
               /\ rsh' = [rsh EXCEPT !.pc = "add", !.pid = FreePid]
          ELSE /\ rsh' = [rsh EXCEPT !.pc = "idle", !.reply = "Error",
                                     !.msg = "ptyStart", !.served = rsh.served + 1]
               /\ UNCHANGED proc
    /\ UNCHANGED <<ShellOthers, children>>

(* handleRunShell with the shell registered as a tracked child *)
RunShellAddChildTracked ==
    /\ rsh.pc = "add"
    /\ children' = addChildProcess(rsh.pid, TRUE)
    /\ rsh' = [rsh EXCEPT !.pc = "respond"]
    /\ UNCHANGED <<ShellOthers, proc>>

(* handleRunShell:1314, st.addChildProcess(cmd, false) *)
RunShellAddChild ==
    /\ rsh.pc = "add"
    /\ children' = addChildProcess(rsh.pid, FALSE)
    /\ rsh' = [rsh EXCEPT !.pc = "respond"]
    /\ UNCHANGED <<ShellOthers, proc>>

(* handleRunShell:1315: Respond(Ok) with the master side of the pty *)
RunShellRespond ==
    /\ rsh.pc = "respond"
    /\ rsh' = [rsh EXCEPT !.pc = "idle", !.reply = "Ok", !.fd = TRUE,
                          !.served = rsh.served + 1]
    /\ UNCHANGED <<ShellOthers, children, proc>>

ShellNext ==
    \/ RunShellRecv
    \/ RunShellPtyStart
    \/ RunShellAddChild
    \/ RunShellRespond

ShellIdle ==
    rsh = [pc |-> "idle", ucred |-> NoUcred, cmd |-> NoCmd, pid |-> 0,
           reply |-> "none", fd |-> FALSE, msg |-> "none",
           before |-> [p \in Pids |-> "absent"], served |-> 0]

InitShell ==
    /\ osEnv = [getuid |-> 0, getpid |-> 1]
    /\ initData \in [decodeOk : {TRUE}, Uid : {1000}, UserUid : {<<1, 0>>},
                     Ephemeral : {TRUE}, Gid : {1000},
                     Gids : {[n \in {"audio"} |-> 29]},
                     HomeDir : {"", "/home/user"}]
    /\ profile \in Profiles({<<>>}, {<<>>}, {"none"}, {FALSE}, {{}}, {"yes"})
    /\ profile.XServerEnabled = FALSE /\ profile.NoSysProc = FALSE
    /\ config \in [UseFullDev : {TRUE}, AllowRootShell : BOOLEAN]
    /\ pc = "serving"
    /\ server = "running"
    /\ exitStatus = -1
    /\ st = "built"
    /\ stderrOut = <<"WAITING", "OK">>
    /\ usr1 = [sent |-> TRUE, notify |-> FALSE, inChan |-> FALSE, received |-> TRUE]
    /\ sigs = [notify |-> TRUE, delivered |-> 0, dropped |-> 0]
    /\ FsIdle
    /\ BootIdle
    /\ SupIdle
    /\ ShellIdle
    /\ launch = [pc |-> "idle"]
    /\ fwd = [pc |-> "idle"]
    /\ reg = [pc |-> "idle"]
    /\ cli = [pc |-> "idle"]

SpecShell == InitShell /\ [][ShellNext]_vars

----------------------------------------------------------------------------
(* The child registry st.children and its mutex st.lock, with every access  *)
(* as an interval of its own: the insert of addChildProcess (1340-1344),    *)
(* the delete of removeChildProcess (1346-1354) and the copy of             *)
(* childrenVector (1459-1467) between Lock and Unlock, and the two reads of *)
(* handleChildExit (1358, 1361-1365), which take no lock.  reg.lock is the  *)
(* task holding st.lock; reg.h, reg.r and reg.s are the positions of an IPC *)
(* handler, of the reaper in handleChildExit and of shutdown().  A map read *)
(* that overlaps a map write has no defined result in Go: the runtime may   *)
(* stop the process ("concurrent map read and map write") or the read sees  *)
(* either value.                                                            *)
RegOthers == <<dataVars, profile, fsVars, bootVars, pc, helpers, reaper, sigTask,
               shutdownRequested, sd, reqs, watchdog, launch, rsh, fwd, cli>>

RegAlive == Alive /\ ~reg.fatal

(* a launcher after cmd.Start(): about to call addChildProcess(cmd, track) *)
RegSpawn ==
    /\ RegAlive
    /\ reg.h = "idle"
    /\ FreePid # 0
    /\ \E track \in BOOLEAN :
          reg' = [reg EXCEPT !.h = "lock", !.hpid = FreePid, !.htrack = track]
    /\ proc' = [proc EXCEPT ![FreePid] = "running"]
    /\ UNCHANGED <<RegOthers, exitStatus, children>>

(* addChildProcess:1341, st.lock.Lock() *)
RegAddLock ==
    /\ RegAlive
    /\ reg.h = "lock"
    /\ reg.lock = "none"
    /\ reg' = [reg EXCEPT !.lock = "handler", !.h = "insert"]
    /\ UNCHANGED <<RegOthers, exitStatus, children, proc>>

(* addChildProcess:1343, the map write *)
RegAddInsert ==
    /\ RegAlive
    /\ reg.h = "insert"
    /\ children' = addChildProcess(reg.hpid, reg.htrack)
    /\ reg' = [reg EXCEPT !.h = "unlock"]
    /\ UNCHANGED <<RegOthers, exitStatus, proc>>

(* addChildProcess:1342, the deferred st.lock.Unlock() *)
RegAddUnlock ==
    /\ RegAlive
    /\ reg.h = "unlock"
    /\ reg' = [reg EXCEPT !.lock = "none", !.h = "idle"]
    /\ UNCHANGED <<RegOthers, exitStatus, children, proc>>

(* a child ends *)
RegChildExits ==
    /\ RegAlive
    /\ \E p \in Pids :
          /\ proc[p] = "running"
          /\ proc' = [proc EXCEPT ![p] = "zombie"]
    /\ UNCHANGED <<RegOthers, exitStatus, children, reg>>

(* the reaper collects the child and calls handleChildExit(pid), 1356 *)
RegReap ==
    /\ RegAlive
    /\ reg.r = "idle"
    /\ \E p \in Pids :
          /\ proc[p] = "zombie"
          /\ proc' = [proc EXCEPT ![p] = "reaped"]
          /\ reg' = [reg EXCEPT !.r = "readTrack", !.rpid = p]
    /\ UNCHANGED <<RegOthers, exitStatus, children>>

(* handleChildExit:1358, track := st.children[pid].track, st.lock not held *)
RegReadTrack ==
    /\ RegAlive
    /\ reg.r = "readTrack"
    /\ IF reg.h = "insert"
       THEN \E outcome \in {"fatal", "true", "false"} :
               IF outcome = "fatal"
               THEN reg' = [reg EXCEPT !.fatal = TRUE] /\ exitStatus' = 2
               ELSE /\ reg' = [reg EXCEPT !.r = "lock", !.rtrack = (outcome = "true")]
                    /\ UNCHANGED exitStatus
       ELSE /\ reg' = [reg EXCEPT !.r = "lock",
                                  !.rtrack = (children[reg.rpid] = "tracked")]
            /\ UNCHANGED exitStatus
    /\ UNCHANGED <<RegOthers, children, proc>>

(* removeChildProcess:1347, st.lock.Lock() *)
RegRemoveLock ==
    /\ RegAlive
    /\ reg.r = "lock"
    /\ reg.lock = "none"
    /\ reg' = [reg EXCEPT !.lock = "reaper", !.r = "delete"]
    /\ UNCHANGED <<RegOthers, exitStatus, children, proc>>

(* removeChildProcess:1349-1352, lookup and delete *)
RegRemoveDelete ==
    /\ RegAlive
    /\ reg.r = "delete"
    /\ children' = removeChildProcess(reg.rpid)
    /\ reg' = [reg EXCEPT !.r = "unlock"]
    /\ UNCHANGED <<RegOthers, exitStatus, proc>>

(* removeChildProcess:1348, the deferred st.lock.Unlock() *)
RegRemoveUnlock ==
    /\ RegAlive
    /\ reg.r = "unlock"
    /\ reg' = [reg EXCEPT !.lock = "none", !.r = "iterate"]
    /\ UNCHANGED <<RegOthers, exitStatus, children, proc>>

(* handleChildExit:1361-1365, the loop over st.children, st.lock not held;  *)
(* reg.remains is whether the loop found a tracked child                    *)
RegIterate ==
    /\ RegAlive
    /\ reg.r = "iterate"
    /\ IF reg.h = "insert"
       THEN \E outcome \in {"fatal", "true", "false"} :
               IF outcome = "fatal"
               THEN reg' = [reg EXCEPT !.fatal = TRUE] /\ exitStatus' = 2
               ELSE /\ reg' = [reg EXCEPT !.r = "idle", !.remains = (outcome = "true")]
                    /\ UNCHANGED exitStatus
       ELSE /\ reg' = [reg EXCEPT !.r = "idle",
                                  !.remains = (\E q \in Pids : children[q] = "tracked")]
            /\ UNCHANGED exitStatus
    /\ UNCHANGED <<RegOthers, children, proc>>

(* shutdown:1426 calls childrenVector; 1460, st.lock.Lock() *)
RegSnapLock ==
    /\ RegAlive
    /\ reg.s = "idle"
    /\ reg.lock = "none"
    /\ reg' = [reg EXCEPT !.lock = "shutdown", !.s = "copy"]
    /\ UNCHANGED <<RegOthers, exitStatus, children, proc>>

(* childrenVector:1462-1465, the copy of the map's values *)
RegSnapCopy ==
    /\ RegAlive
    /\ reg.s = "copy"
    /\ reg' = [reg EXCEPT !.s = "unlock", !.snap = childrenVector]
    /\ UNCHANGED <<RegOthers, exitStatus, children, proc>>

(* childrenVector:1461, the deferred st.lock.Unlock() *)
RegSnapUnlock ==
    /\ RegAlive
    /\ reg.s = "unlock"
    /\ reg' = [reg EXCEPT !.lock = "none", !.s = "done"]
    /\ UNCHANGED <<RegOthers, exitStatus, children, proc>>

RegNext ==
    \/ RegSpawn
    \/ RegAddLock
    \/ RegAddInsert
    \/ RegAddUnlock
    \/ RegChildExits
    \/ RegReap
    \/ RegReadTrack
    \/ RegRemoveLock
    \/ RegRemoveDelete
    \/ RegRemoveUnlock
    \/ RegIterate
    \/ RegSnapLock
    \/ RegSnapCopy
    \/ RegSnapUnlock

RegIdle ==
    reg = [lock |-> "none", h |-> "idle", hpid |-> 0, htrack |-> FALSE,
           r |-> "idle", rpid |-> 0, rtrack |-> FALSE, remains |-> FALSE,
           s |-> "idle", snap |-> {}, fatal |-> FALSE]

InitReg ==
    /\ osEnv = [getuid |-> 0, getpid |-> 1]
    /\ initData \in [decodeOk : {TRUE}, Uid : {10}, UserUid : {<<1, 0>>},
                     Ephemeral : {TRUE}]
    /\ profile \in Profiles({<<>>}, {<<>>}, {"none"}, {FALSE}, {{}}, {"yes"})
    /\ profile.XServerEnabled = FALSE /\ profile.NoSysProc = FALSE
    /\ config \in [UseFullDev : {TRUE}]
    /\ pc = "serving"
    /\ server = "running"
    /\ exitStatus = -1
    /\ st = "built"
    /\ stderrOut = <<"WAITING", "OK">>
    /\ usr1 = [sent |-> TRUE, notify |-> FALSE, inChan |-> FALSE, received |-> TRUE]
    /\ sigs = [notify |-> TRUE, delivered |-> 0, dropped |-> 0]
    /\ FsIdle
    /\ ipcServer = "set"
    /\ files = {}
    /\ bootErrors = {}
    /\ reaperOn = TRUE
    /\ xpra = [handle |-> "nil", proc |-> "none", seenReady |-> FALSE]
    /\ xpraReady = 0
    /\ term = [monitor |-> "none", stdout |-> "off", stderr |-> "off", pid |-> 0]
    /\ termReady = 0
    /\ SupIdle
    /\ RegIdle
    /\ launch = [pc |-> "idle"]
    /\ rsh = [pc |-> "idle"]
    /\ fwd = [pc |-> "idle"]
    /\ cli = [pc |-> "idle"]

SpecReg == InitReg /\ [][RegNext]_vars

----------------------------------------------------------------------------
(* handleSetupForwarder (1213-1236) with the task it starts, and            *)
(* proxyForwarder (1238-1257).  fwd.nfds, fwd.reply and fwd.task are        *)
(* indexed by the request; fwd.proxies holds one record per call of         *)
(* proxyForwarder: conn is the accepted socket ("nil" when Accept failed).  *)
MaxForwards == 2        \* SetupForwarder requests one run serves
MaxFds      == 2        \* most ancillary descriptors a request carries
MaxConns    == 2        \* calls of proxyForwarder in one run

FwdIds == 1..MaxForwards

FwdOthers == <<dataVars, profile, fsVars, bootVars, pc, supVars, launch, rsh, reg, cli>>

FwdAlive == Alive /\ ~fwd.fatal

(* handleSetupForwarder:1213-1233: with no descriptor the handler returns   *)
(* an error; otherwise it starts the task on msg.Fds[0] and goes on to the  *)
(* reply                                                                    *)
FwdRecv ==
    /\ FwdAlive
    /\ pc = "serving"
    /\ server = "running"
    /\ fwd.pc = "idle"
    /\ fwd.cur < MaxForwards
    /\ \E n \in 0..MaxFds :
          LET r == fwd.cur + 1
          IN  IF n = 0
              THEN fwd' = [fwd EXCEPT !.cur = r, !.nfds[r] = n, !.pc = "returnError"]
              ELSE fwd' = [fwd EXCEPT !.cur = r, !.nfds[r] = n, !.pc = "respond",
                                      !.task[r] = "adopt"]
    /\ UNCHANGED <<FwdOthers, exitStatus>>

(* the server's dispatch on a handler that returned an error: the error is  *)
(* sent back as Error{msg} on the same exchange                             *)
FwdDispatchError ==
    /\ FwdAlive
    /\ fwd.pc = "returnError"
    /\ fwd' = [fwd EXCEPT !.pc = "idle", !.reply[fwd.cur] = "Error"]
    /\ UNCHANGED <<FwdOthers, exitStatus>>

(* handleSetupForwarder:1234, msg.Respond(&OkMsg{}) *)
FwdRespond ==
    /\ FwdAlive
    /\ fwd.pc = "respond"
    /\ fwd' = [fwd EXCEPT !.pc = "idle", !.reply[fwd.cur] = "Ok"]
    /\ UNCHANGED <<FwdOthers, exitStatus>>

(* the task, 1219-1224: os.NewFile and net.FileListener on msg.Fds[0]; a    *)
(* failure is logged as a warning and the task ends                         *)
FwdAdopt ==
    /\ FwdAlive
    /\ \E r \in FwdIds :
          /\ fwd.task[r] = "adopt"
          /\ \E ok \in BOOLEAN :
                IF ok THEN fwd' = [fwd EXCEPT !.task[r] = "accept"]
                      ELSE fwd' = [fwd EXCEPT !.task[r] = "ended",
                                              !.log = fwd.log \cup {<<"adopt", r>>}]
    /\ UNCHANGED <<FwdOthers, exitStatus>>

(* the task, 1225-1232: l.Accept(); an error is logged and the loop goes    *)
(* on to start proxyForwarder all the same, on a nil connection             *)
FwdAccept ==
    /\ FwdAlive
    /\ Len(fwd.proxies) < MaxConns
    /\ \E r \in FwdIds :
          /\ fwd.task[r] = "accept"
          /\ \E ok \in BOOLEAN :
                fwd' = [fwd EXCEPT
                          !.proxies = Append(fwd.proxies,
                                             [req |-> r, pc |-> "dial",
                                              conn |-> IF ok THEN "open" ELSE "nil",
                                              logged |-> FALSE]),
                          !.log = IF ok THEN fwd.log ELSE fwd.log \cup {<<"accept", r>>}]
    /\ UNCHANGED <<FwdOthers, exitStatus>>

(* proxyForwarder:1239-1255: net.Dial fails and the function returns an     *)
(* error, which "go proxyForwarder(...)" drops; or the two copy loops are   *)
(* started, and on a nil connection the first use of it ends the process    *)
FwdDial ==
    /\ FwdAlive
    /\ \E i \in 1..Len(fwd.proxies) :
          /\ fwd.proxies[i].pc = "dial"
          /\ \E ok \in BOOLEAN :
                IF ~ok
                THEN fwd' = [fwd EXCEPT !.proxies[i].pc = "dialFailed"] /\ UNCHANGED exitStatus
                ELSE IF fwd.proxies[i].conn = "nil"
                THEN fwd' = [fwd EXCEPT !.proxies[i].pc = "panic", !.fatal = TRUE]
                     /\ exitStatus' = 2
                ELSE fwd' = [fwd EXCEPT !.proxies[i].pc = "copy"] /\ UNCHANGED exitStatus
    /\ UNCHANGED FwdOthers

(* copyLoop, 1246-1250: one side reaches the end of its input and both      *)
(* loops end, each closing its destination                                  *)
FwdCopyEnds ==
    /\ FwdAlive
    /\ \E i \in 1..Len(fwd.proxies) :
          /\ fwd.proxies[i].pc = "copy"
          /\ fwd' = [fwd EXCEPT !.proxies[i].pc = "done", !.proxies[i].conn = "closed"]
    /\ UNCHANGED <<FwdOthers, exitStatus>>

FwdNext ==
    \/ FwdRecv
    \/ FwdDispatchError
    \/ FwdRespond
    \/ FwdAdopt
    \/ FwdAccept
    \/ FwdDial
    \/ FwdCopyEnds

FwdIdle ==
    fwd = [pc |-> "idle", cur |-> 0,
           nfds |-> [r \in FwdIds |-> 0],
           reply |-> [r \in FwdIds |-> "none"],
           task |-> [r \in FwdIds |-> "none"],
           proxies |-> <<>>, log |-> {}, fatal |-> FALSE]

InitFwd ==
    /\ osEnv = [getuid |-> 0, getpid |-> 1]
    /\ initData \in [decodeOk : {TRUE}, Uid : {10}, UserUid : {<<1, 0>>},
                     Ephemeral : {TRUE}]
    /\ profile \in Profiles({<<>>}, {<<>>}, {"none"}, {FALSE}, {{}}, {"yes"})
    /\ profile.XServerEnabled = FALSE /\ profile.NoSysProc = FALSE
    /\ config \in [UseFullDev : {TRUE}]
    /\ pc = "serving"
    /\ server = "running"
    /\ exitStatus = -1
    /\ st = "built"
    /\ stderrOut = <<"WAITING", "OK">>
    /\ usr1 = [sent |-> TRUE, notify |-> FALSE, inChan |-> FALSE, received |-> TRUE]
    /\ sigs = [notify |-> TRUE, delivered |-> 0, dropped |-> 0]
    /\ FsIdle
    /\ ipcServer = "set"
    /\ files = {}
    /\ bootErrors = {}
    /\ reaperOn = TRUE
    /\ xpra = [handle |-> "nil", proc |-> "none", seenReady |-> FALSE]
    /\ xpraReady = 0
    /\ term = [monitor |-> "none", stdout |-> "off", stderr |-> "off", pid |-> 0]
    /\ termReady = 0
    /\ SupIdle
    /\ FwdIdle
    /\ launch = [pc |-> "idle"]
    /\ rsh = [pc |-> "idle"]
    /\ reg = [pc |-> "idle"]
    /\ cli = [pc |-> "idle"]

SpecFwd == InitFwd /\ [][FwdNext]_vars

----------------------------------------------------------------------------
(* One proxied connection: proxyForwarder (1238-1257) after net.Dial has    *)
(* succeeded, with its two copy loops.  fwd.conn is the accepted socket and *)
(* fwd.rConn the dialed one, as init holds them; fwd.client and fwd.target  *)
(* are the far ends ("eof" once that end has closed or shut down its        *)
(* sending side).  Loop "up" copies from conn to rConn, loop "down" from   *)
(* rConn to conn.  A Read returns when data is there, when the far          *)
(* end is at end of file, or with an error when init has closed the socket; *)
(* a Write on a socket init has closed fails, and any other Write is taken  *)
(* by the far end.                                                          *)
MaxChunks == 1          \* chunks of data either end sends

Loops == {"up", "down"}
loopSrc(l) == IF l = "up" THEN "conn" ELSE "rConn"
loopDst(l) == IF l = "up" THEN "rConn" ELSE "conn"
sockOf(px, s) == IF s = "conn" THEN px.conn ELSE px.rConn
farEnd(px, s) == IF s = "conn" THEN px.client ELSE px.target
pending(px, s) == IF s = "conn" THEN px.inC ELSE px.inT

copyLoopExitNoClose(px, l) == [px EXCEPT !.loop[l] = "done"]

(* copyLoop:1247-1248, the deferred dst.Close() and wg.Done() *)
copyLoopExit(px, l) ==
    IF loopDst(l) = "conn"
    THEN [px EXCEPT !.loop[l] = "done", !.conn = "closed"]
    ELSE [px EXCEPT !.loop[l] = "done", !.rConn = "closed"]

ProxyOthers == <<dataVars, profile, fsVars, bootVars, pc, exitStatus, supVars,
                 launch, rsh, reg, cli>>

(* the client or the target sends a chunk *)
ProxyPeerSends ==
    /\ \E s \in {"conn", "rConn"} :
          /\ farEnd(fwd, s) = "open"
          /\ IF s = "conn"
             THEN /\ fwd.sentC < MaxChunks
                  /\ fwd' = [fwd EXCEPT !.inC = fwd.inC + 1, !.sentC = fwd.sentC + 1]
             ELSE /\ fwd.sentT < MaxChunks
                  /\ fwd' = [fwd EXCEPT !.inT = fwd.inT + 1, !.sentT = fwd.sentT + 1]
    /\ UNCHANGED ProxyOthers

(* the client or the target closes, or shuts down its sending side *)
ProxyPeerCloses ==
    /\ \E s \in {"conn", "rConn"} :
          /\ farEnd(fwd, s) = "open"
          /\ IF s = "conn" THEN fwd' = [fwd EXCEPT !.client = "eof"]
                           ELSE fwd' = [fwd EXCEPT !.target = "eof"]
    /\ UNCHANGED ProxyOthers

(* io.Copy in copyLoop:1249, the Read on src: an error on a socket init has *)
(* closed, a chunk, or end of file; otherwise the task stays blocked        *)
ProxyRead(l) ==
    /\ fwd.loop[l] = "read"
    /\ LET s == loopSrc(l)
       IN  IF sockOf(fwd, s) = "closed"
           THEN fwd' = [fwd EXCEPT !.loop[l] = "exit"]
           ELSE IF pending(fwd, s) > 0
           THEN IF s = "conn"
                THEN fwd' = [fwd EXCEPT !.loop[l] = "write", !.inC = fwd.inC - 1]
                ELSE fwd' = [fwd EXCEPT !.loop[l] = "write", !.inT = fwd.inT - 1]
           ELSE /\ farEnd(fwd, s) = "eof"
                /\ fwd' = [fwd EXCEPT !.loop[l] = "exit"]
    /\ UNCHANGED ProxyOthers

(* io.Copy in copyLoop:1249, the Write on dst: it fails on a socket init    *)
(* has closed and io.Copy returns; otherwise the loop reads again           *)
ProxyWrite(l) ==
    /\ fwd.loop[l] = "write"
    /\ IF sockOf(fwd, loopDst(l)) = "closed"
       THEN fwd' = [fwd EXCEPT !.loop[l] = "exit"]
       ELSE fwd' = [fwd EXCEPT !.loop[l] = "read",
                               !.delivered[l] = fwd.delivered[l] + 1]
    /\ UNCHANGED ProxyOthers

(* copyLoop returns: the deferred calls run *)
ProxyExit(l) ==
    /\ fwd.loop[l] = "exit"
    /\ fwd' = copyLoopExit(fwd, l)
    /\ UNCHANGED ProxyOthers

ProxyLoopNext(l) == ProxyRead(l) \/ ProxyWrite(l) \/ ProxyExit(l)

ProxyUp == ProxyLoopNext("up")
ProxyDown == ProxyLoopNext("down")

ProxyNext ==
    \/ ProxyPeerSends
    \/ ProxyPeerCloses
    \/ ProxyUp
    \/ ProxyDown

InitProxy ==
    /\ osEnv = [getuid |-> 0, getpid |-> 1]
    /\ initData \in [decodeOk : {TRUE}, Uid : {10}, UserUid : {<<1, 0>>},
                     Ephemeral : {TRUE}]
    /\ profile \in Profiles({<<>>}, {<<>>}, {"none"}, {FALSE}, {{}}, {"yes"})
    /\ profile.XServerEnabled = FALSE /\ profile.NoSysProc = FALSE
    /\ config \in [UseFullDev : {TRUE}]
    /\ pc = "serving"
    /\ server = "running"
    /\ exitStatus = -1
    /\ st = "built"
    /\ stderrOut = <<"WAITING", "OK">>
    /\ usr1 = [sent |-> TRUE, notify |-> FALSE, inChan |-> FALSE, received |-> TRUE]
    /\ sigs = [notify |-> TRUE, delivered |-> 0, dropped |-> 0]
    /\ FsIdle
    /\ ipcServer = "set"
    /\ files = {}
    /\ bootErrors = {}
    /\ reaperOn = TRUE
    /\ xpra = [handle |-> "nil", proc |-> "none", seenReady |-> FALSE]
    /\ xpraReady = 0
    /\ term = [monitor |-> "none", stdout |-> "off", stderr |-> "off", pid |-> 0]
    /\ termReady = 0
    /\ SupIdle
    /\ fwd = [pc |-> "proxy", client |-> "open", target |-> "open",
              conn |-> "open", rConn |-> "open",
              inC |-> 0, inT |-> 0, sentC |-> 0, sentT |-> 0,
              loop |-> [l \in Loops |-> "read"],
              delivered |-> [l \in Loops |-> 0]]
    /\ launch = [pc |-> "idle"]
    /\ rsh = [pc |-> "idle"]
    /\ reg = [pc |-> "idle"]
    /\ cli = [pc |-> "idle"]

SpecProxy == InitProxy /\ [][ProxyNext]_vars

(* each copy loop is a goroutine of its own and keeps being scheduled *)
FairSpecProxy == SpecProxy /\ WF_vars(ProxyUp) /\ WF_vars(ProxyDown)

----------------------------------------------------------------------------
(* The client side of the daemon, client.go:15-352.  In the specifications  *)
(* of this part init is serving and takes no step.                          *)
ClientOthers == <<dataVars, profile, fsVars, bootVars, pc, exitStatus, supVars,
                  launch, rsh, fwd, reg>>

InitServing ==
    /\ osEnv = [getuid |-> 0, getpid |-> 1]
    /\ initData \in [decodeOk : {TRUE}, Uid : {10}, UserUid : {<<1, 0>>},
                     Ephemeral : {TRUE}]
    /\ profile \in Profiles({<<>>}, {<<>>}, {"none"}, {FALSE}, {{}}, {"yes"})
    /\ profile.XServerEnabled = FALSE /\ profile.NoSysProc = FALSE
    /\ config \in [UseFullDev : {TRUE}]
    /\ pc = "serving"
    /\ server = "running"
    /\ exitStatus = -1
    /\ st = "built"
    /\ stderrOut = <<"WAITING", "OK">>
    /\ usr1 = [sent |-> TRUE, notify |-> FALSE, inChan |-> FALSE, received |-> TRUE]
    /\ sigs = [notify |-> TRUE, delivered |-> 0, dropped |-> 0]
    /\ FsIdle
    /\ ipcServer = "set"
    /\ files = {}
    /\ bootErrors = {}
    /\ reaperOn = TRUE
    /\ xpra = [handle |-> "nil", proc |-> "none", seenReady |-> FALSE]
    /\ xpraReady = 0
    /\ term = [monitor |-> "none", stdout |-> "off", stderr |-> "off", pid |-> 0]
    /\ termReady = 0
    /\ SupIdle
    /\ launch = [pc |-> "idle"]
    /\ rsh = [pc |-> "idle"]
    /\ fwd = [pc |-> "idle"]
    /\ reg = [pc |-> "idle"]

(* GetSocketName, client.go:329-352.  A name is the sequence of its         *)
(* characters; "a" and "0" stand for the letters and digits, "/" for a      *)
(* character outside the class of the pattern.                              *)
MaxNameLen == 3         \* longest OZ_SOCKET_NAME drawn
MaxCalls   == 2         \* calls of GetSocketName in one run

NameAlphabet == {"@", "a", "0", "-", "/"}
NameChars    == {"a", "0", "_", "-", "o", "z"}
SocketName   == <<"@", "o", "z">>
EnvNames     == SeqsUpTo(NameAlphabet, MaxNameLen)
LaterNames   == {<<>>, <<"/">>, <<"@", "a">>, <<"0", "-">>}

(* isSocketName, client.go:329: the pattern ^@[A-Za-z0-9_-]+$ *)
isSocketName(s) ==
    /\ Len(s) >= 2
    /\ s[1] = "@"
    /\ \A i \in 2..Len(s) : s[i] \in NameChars

getSocketNameNoCache(cached, env) ==
    IF env # <<>>
    THEN LET b == IF env[1] # "@" THEN <<"@">> \o env ELSE env
         IN  IF ~isSocketName(b) THEN SocketName ELSE b
    ELSE SocketName

(* GetSocketName:332-351: the value returned, which is also stored in       *)
(* sSocketName                                                              *)
getSocketName(cached, env) ==
    IF cached # <<>> THEN cached
    ELSE IF env # <<>>
    THEN LET b == IF env[1] # "@" THEN <<"@">> \o env ELSE env
         IN  IF ~isSocketName(b) THEN SocketName ELSE b
    ELSE SocketName

(* a call of GetSocketName (clientConnect:16) *)
GetSocketNameCall ==
    /\ cli.calls < MaxCalls
    /\ LET r == getSocketName(cli.sSocketName, cli.env)
       IN  cli' = [cli EXCEPT !.sSocketName = r, !.ret = r,
                              !.calls = cli.calls + 1,
                              !.first = IF cli.calls = 0 THEN r ELSE cli.first,
                              !.envAtFirst = IF cli.calls = 0 THEN cli.env
                                             ELSE cli.envAtFirst]
    /\ UNCHANGED ClientOthers

(* the process changes OZ_SOCKET_NAME in its environment *)
SetSocketEnv ==
    /\ cli.calls < MaxCalls
    /\ \E e \in LaterNames : e # cli.env /\ cli' = [cli EXCEPT !.env = e]
    /\ UNCHANGED ClientOthers

SockNext == GetSocketNameCall \/ SetSocketEnv

InitSock ==
    /\ InitServing
    /\ \E e \in EnvNames :
          cli = [pc |-> "sock", env |-> e, sSocketName |-> <<>>, ret |-> <<>>,
                 calls |-> 0, first |-> <<>>, envAtFirst |-> <<>>]

SpecSock == InitSock /\ [][SockNext]_vars

----------------------------------------------------------------------------
(* ProfileHasEphemerals, client.go:1635-1653, called with the profile cli.p *)

(* ProfileHasEphemerals:1637-1645: some item with a path is ephemeral *)
whitelistFound(wlist) ==
    \E i \in 1..Len(wlist) : wlist[i].Path # <<>> /\ whitelistItemIsEphemeral(wlist[i])

(* ProfileHasEphemerals:1635-1653.  The first loop returns true at the      *)
(* first ephemeral item; past it `found` is false, and that is what the     *)
(* second loop returns at an ephemeral shared folder (line 1649) and what   *)
(* line 1652 returns.                                                       *)
ProfileHasEphemerals(p) ==
    IF whitelistFound(p.Whitelist) THEN TRUE
    ELSE LET found == FALSE
         IN  IF \E i \in 1..Len(p.SharedFolders) :
                    sharedFolderIsEphemeral(p.SharedFolders[i])
             THEN found
             ELSE found

ProfileHasEphemeralsCall ==
    /\ cli.pc = "profile"
    /\ cli' = [cli EXCEPT !.pc = "returned", !.ret = ProfileHasEphemerals(cli.p)]
    /\ UNCHANGED ClientOthers

EphNext == ProfileHasEphemeralsCall

InitEph ==
    /\ InitServing
    /\ \E wl \in SeqsUpTo(WhitelistItems, MaxWhitelist),
          sf \in SeqsUpTo(SharedFolderNames, MaxShared) :
          cli = [pc |-> "profile", p |-> [Whitelist |-> wl, SharedFolders |-> sf],
                 ret |-> FALSE]

SpecEph == InitEph /\ [][EphNext]_vars

----------------------------------------------------------------------------
(* parseOpenVPNConf, openvpn.go:54-270.  A string is a sequence of pieces   *)
(* (a piece is a run of characters that holds no '#' unless it is "#"), a   *)
(* configuration line the sequence of its blank-separated strings (what     *)
(* the pattern of line 67 finds), a file a sequence of lines.  cli.conf is  *)
(* the file, cli.ioOk whether the files of the inline blocks can be written.*)
MaxConfLines  == 2      \* lines of a configuration file
MaxConfTokens == 2      \* strings on one line

Opt(name) == <<"--", name>>

ConfTokens ==
    { <<"up">>, Opt("up"), <<"remote">>, <<"up", "#", "x">>, <<"ca">>,
      <<"auth-user-pass">>, <<"<cert>">>, <<"</cert>">> }

ConfLines == SeqsUpTo(ConfTokens, MaxConfTokens)

(* line 77, commentstrip.ReplaceAllString with the pattern of line 68: the  *)
(* first group is greedy, so the string is cut at its last '#'              *)
commentStrip(v) ==
    IF \E k \in 1..Len(v) : v[k] = "#"
    THEN LET last == CHOOSE k \in 1..Len(v) :
                        v[k] = "#" /\ \A j \in (k + 1)..Len(v) : v[j] # "#"
         IN  SubSeq(v, 1, last - 1)
    ELSE v

(* lines 75-85: the strings of a line up to and including the first one a   *)
(* comment was cut from                                                     *)
RECURSIVE lineFields(_, _, _)
lineFields(x, i, y) ==
    IF i > Len(x) THEN y
    ELSE LET new == commentStrip(x[i])
             y2  == IF new # <<>> THEN Append(y, new) ELSE y
         IN  IF x[i] # new THEN y2 ELSE lineFields(x, i + 1, y2)

(* the cases of lines 97-152 and 158 that only `continue` *)
DroppedDirectives ==
    { "persist-tun", "auth-nocache", "iproute", "route-up", "config",
      "route-pre-down", "down", "script-security", "ipchange", "up", "cd", "chroot",
      "setenv", "setenv-safe", "group", "user", "daemon", "syslog", "log",
      "log-append", "echo", "status", "mode", "client", "server", "management",
      "plugin", "ifconfig", "writepid" }

(* the inline blocks of lines 165-248: the option and the file each gives *)
InlineBlocks ==
    [ b \in {"<cert>", "<ca>", "<key>", "<tls-auth>"} |->
        CASE b = "<cert>"     -> [close |-> "</cert>", opt |-> "cert", file |-> "-cert.cert"]
          [] b = "<ca>"       -> [close |-> "</ca>", opt |-> "ca", file |-> "-ca.cert"]
          [] b = "<key>"      -> [close |-> "</key>", opt |-> "key", file |-> "-key.key"]
          [] b = "<tls-auth>" -> [close |-> "</tls-auth>", opt |-> "tls-auth",
                                  file |-> "-tls-auth.key"] ]

ConfDirPath(name) == <<"OpenVPNConfDir", "/">> \o name
RunPath(suffix) == <<"OpenVPNRunPath", "/", "runtoken", suffix>>

(* line 260 *)
OvpnExtra ==
    << Opt("writepid"), RunPath(".pid"), Opt("ping"), <<"10">>,
       Opt("ping-restart"), <<"60">>, Opt("daemon"), Opt("auth-retry"),
       <<"nointeract">>, Opt("route-noexec"),
       Opt("route-up"), <<"/usr/bin/oz-ovpn-route-up">>,
       Opt("route-pre-down"), <<"/usr/bin/oz-ovpn-route-down">>,
       Opt("script-security"), <<"2">>,
       Opt("setenv"), <<"bridge_addr">>, <<"ip">>,
       Opt("setenv"), <<"routing_table">>, <<"table">>,
       Opt("setenv"), <<"bridge_dev">>, <<"dev">> >>

(* the inner loops of lines 173-183 (194, 215, 236): the index of the line  *)
(* after the block that opens at line i, the closing line being a line      *)
(* whose text is the closing tag                                            *)
RECURSIVE afterBlock(_, _, _)
afterBlock(lines, j, close) ==
    IF j > Len(lines) THEN j
    ELSE IF lines[j] = << <<close>> >> THEN j + 1
    ELSE afterBlock(lines, j + 1, close)

(* lines 251-258: the directive with "--" in front, its further strings as  *)
(* they are                                                                 *)
passDirective(x) == << <<"--">> \o x[1] >> \o Tail(x)

(* lines 73-259 from line i on, then 260-268 *)
RECURSIVE scanConf(_, _, _, _)
scanConf(lines, i, cmd, ioOk) ==
    IF i > Len(lines) THEN [argv |-> cmd \o OvpnExtra, err |-> FALSE]
    ELSE LET x == lineFields(lines[i], 1, <<>>)
         IN  IF Len(x) = 0 THEN scanConf(lines, i + 1, cmd, ioOk)
             ELSE IF x[1] = <<"auth-user-pass">>
                  THEN scanConf(lines, i + 1,
                                cmd \o <<Opt("auth-nocache"), Opt("auth-user-pass"),
                                         ConfDirPath(<<"auth">>)>>, ioOk)
             ELSE IF \E d \in DroppedDirectives : x[1] = <<d>>
                  THEN scanConf(lines, i + 1, cmd, ioOk)
             ELSE IF x[1] \in {<<"ca">>, <<"crl-verify">>}
                  THEN scanConf(lines, i + 1,
                                IF Len(x) = 2
                                THEN cmd \o << <<"--">> \o x[1], ConfDirPath(x[2]) >>
                                ELSE cmd, ioOk)
             ELSE IF \E b \in DOMAIN InlineBlocks : x[1] = <<b>>
                  THEN LET blk == InlineBlocks[x[1][1]]
                       IN  IF ~ioOk THEN [argv |-> cmd, err |-> TRUE]
                           ELSE scanConf(lines, afterBlock(lines, i + 1, blk.close),
                                         cmd \o <<Opt(blk.opt), RunPath(blk.file)>>, ioOk)
             ELSE scanConf(lines, i + 1, cmd \o passDirective(x), ioOk)

(* parseOpenVPNConf of a file that could be opened *)
parseOpenVPNConf(lines, ioOk) == scanConf(lines, 1, <<Opt("client")>>, ioOk)

ParseOpenVPNConfCall ==
    /\ cli.pc = "conf"
    /\ cli' = [cli EXCEPT !.pc = "returned",
                          !.ret = parseOpenVPNConf(cli.conf, cli.ioOk)]
    /\ UNCHANGED ClientOthers

OvpnNext == ParseOpenVPNConfCall

InitOvpn ==
    /\ InitServing
    /\ \E conf \in SeqsUpTo(ConfLines, MaxConfLines), ioOk \in BOOLEAN :
          cli = [pc |-> "conf", conf |-> conf, ioOk |-> ioOk,
                 ret |-> [argv |-> <<>>, err |-> FALSE]]

SpecOvpn == InitOvpn /\ [][OvpnNext]_vars

----------------------------------------------------------------------------
(* Logs with dumpLogs (client.go:298-327) and clientSend (19-33).           *)
(* cli.arrived holds the response frames in the order the connection        *)
(* delivered them on rr.Chan(), cli.lost tells that the connection has      *)
(* ended and rr.Chan() is closed behind the frames that arrived, cli.next   *)
(* is the next frame to be received,                                        *)
(* cli.cur the strings dumpLogs has still to send for the frame in hand,    *)
(* cli.got what the reader of the returned channel has received.            *)
MaxFrames == 3          \* response frames arriving for one request
MaxLines  == 2          \* most lines in one LogData frame

LogLines == {"a", "b"}
Unexpected == "Unexpected response type"
Frames ==
    {[type |-> "LogData", lines |-> l] : l \in SeqsUpTo(LogLines, MaxLines)}
       \cup {[type |-> "Ok", lines |-> <<>>], [type |-> "Error", lines |-> <<>>]}

(* a response frame arrives on the connection *)
FrameArrives ==
    /\ ~cli.lost
    /\ Len(cli.arrived) < MaxFrames
    /\ \E f \in Frames : cli' = [cli EXCEPT !.arrived = Append(cli.arrived, f)]
    /\ UNCHANGED ClientOthers

(* the connection ends: rr.Chan() is closed and no frame follows *)
ConnectionLost ==
    /\ ~cli.lost
    /\ cli' = [cli EXCEPT !.lost = TRUE]
    /\ UNCHANGED ClientOthers

(* dumpLogs with "return" left out of the OkMsg case *)
DumpLogsRecvNoReturn ==
    /\ cli.kind = "logs"
    /\ cli.pc = "range"
    /\ cli.cur = <<>>
    /\ cli.next <= Len(cli.arrived)
    /\ LET f == cli.arrived[cli.next]
       IN  CASE f.type = "Ok" ->
                  cli' = [cli EXCEPT !.next = cli.next + 1, !.done = TRUE,
                                     !.closed = TRUE]
             [] f.type = "LogData" ->
                  cli' = [cli EXCEPT !.next = cli.next + 1, !.cur = f.lines]
             [] OTHER ->
                  cli' = [cli EXCEPT !.next = cli.next + 1, !.cur = <<Unexpected>>]
    /\ UNCHANGED ClientOthers

(* dumpLogs:313-326: the next response is taken from rr.Chan(); Ok ends the *)
(* task after rr.Done() and close(out), LogData gives its lines to send,    *)
(* any other body one line naming its type                                  *)
DumpLogsRecv ==
    /\ cli.kind = "logs"
    /\ cli.pc = "range"
    /\ cli.cur = <<>>
    /\ cli.next <= Len(cli.arrived)
    /\ LET f == cli.arrived[cli.next]
       IN  CASE f.type = "Ok" ->
                  cli' = [cli EXCEPT !.next = cli.next + 1, !.done = TRUE,
                                     !.closed = TRUE, !.pc = "returned"]
             [] f.type = "LogData" ->
                  cli' = [cli EXCEPT !.next = cli.next + 1, !.cur = f.lines]
             [] OTHER ->
                  cli' = [cli EXCEPT !.next = cli.next + 1, !.cur = <<Unexpected>>]
    /\ UNCHANGED ClientOthers

(* dumpLogs:321 and 324, "out <- ll": the channel has no buffer, the send   *)
(* completes when the reader takes the string                               *)
DumpLogsSend ==
    /\ cli.kind = "logs"
    /\ cli.pc = "range"
    /\ cli.cur # <<>>
    /\ cli' = [cli EXCEPT !.got = Append(cli.got, Head(cli.cur)),
                          !.cur = Tail(cli.cur)]
    /\ UNCHANGED ClientOthers

(* dumpLogs:313 and 327: rr.Chan() is closed and drained, the range loop    *)
(* ends and the task returns                                                *)
DumpLogsEnd ==
    /\ cli.kind = "logs"
    /\ cli.pc = "range"
    /\ cli.cur = <<>>
    /\ cli.next > Len(cli.arrived)
    /\ cli.lost
    /\ cli' = [cli EXCEPT !.pc = "returned"]
    /\ UNCHANGED ClientOthers

(* clientSend:30-32: one response is taken from rr.Chan(), then rr.Done();  *)
(* the receive from a closed and drained channel yields nil                 *)
ClientSendRecv ==
    /\ cli.kind = "other"
    /\ cli.pc = "recv"
    /\ IF cli.next <= Len(cli.arrived)
       THEN cli' = [cli EXCEPT !.next = cli.next + 1, !.done = TRUE, !.pc = "returned",
                               !.resp = <<cli.arrived[cli.next]>>]
       ELSE /\ cli.lost
            /\ cli' = [cli EXCEPT !.done = TRUE, !.pc = "returned", !.resp = <<>>]
    /\ UNCHANGED ClientOthers

DumpLogsNext == DumpLogsRecv \/ DumpLogsSend \/ DumpLogsEnd

LogsNext ==
    \/ FrameArrives
    \/ ConnectionLost
    \/ DumpLogsRecv
    \/ DumpLogsSend
    \/ DumpLogsEnd
    \/ ClientSendRecv

(* Logs:304-310 after ExchangeMsg, or clientSend:26-29 after ExchangeMsg *)
InitLogs ==
    /\ InitServing
    /\ \E k \in {"logs", "other"} :
          cli = [kind |-> k, pc |-> IF k = "logs" THEN "range" ELSE "recv",
                 arrived |-> <<>>, next |-> 1, cur |-> <<>>, got |-> <<>>,
                 closed |-> FALSE, done |-> FALSE, resp |-> <<>>, lost |-> FALSE]

SpecLogs == InitLogs /\ [][LogsNext]_vars

(* The task of dumpLogs is scheduled while it can take a step, and the      *)
(* reader of the returned channel keeps reading; the connection owes        *)
(* nothing.                                                                 *)
FairSpecLogs == SpecLogs /\ WF_vars(DumpLogsNext) /\ WF_vars(ClientSendRecv)

----------------------------------------------------------------------------
(* Properties.                                                              *)

OkWritten == \E i \in 1..Len(stderrOut) : stderrOut[i] = "OK"

WaitingWritten == \E i \in 1..Len(stderrOut) : stderrOut[i] = "WAITING"

(* the number a decimal digit string denotes *)
RECURSIVE Atoi(_)
Atoi(ds) == IF ds = <<>> THEN 0 ELSE 10 * Atoi(SubSeq(ds, 1, Len(ds) - 1)) + ds[Len(ds)]

HomeOrXdg(s) == HasPrefix(s, <<HOME>>) \/ HasPrefix(s, <<XDG>>)

NoTrackedRemains == \A q \in Pids : children[q] # "tracked"

(* the child-exit handler takes its decision in this step *)
DecideStep == reaper.pc = "decide" /\ reaper'.pc # "decide"

(* C1, as the code has it: the child-exit handler calls shutdown() if and   *)
(* only if no tracked child remains after the removal, AutoShutdown is yes, *)
(* and either the watchdog list is empty and the exiting child was tracked, *)
(* or the watchdog list is non-empty and no watchdog process is running     *)
(* (then the exiting child need not have been tracked).                     *)
C1_AutoShutdownIff ==
    [][DecideStep =>
         (reaper'.pc = "sd1" <=>
            /\ NoTrackedRemains
            /\ profile.AutoShutdown = "yes"
            /\ IF profile.Watchdog = {} THEN reaper.track
                                        ELSE watchdog # "running")]_vars

(* C1 witness: the handler has called shutdown() on the exit of a process   *)
(* that was not tracked, under a non-empty watchdog list.                   *)
C1_Witness ==
    /\ reaper.pc = "sd1"
    /\ ~reaper.track
    /\ profile.Watchdog # {}

(* C1 as stated: the handler calls shutdown() if and only if the exiting    *)
(* child was tracked, no tracked child remains, the watchdog list is empty  *)
(* or no watchdog process is running, and AutoShutdown is yes.              *)
C1_AsStated ==
    [][DecideStep =>
         (reaper'.pc = "sd1" <=>
            /\ reaper.track
            /\ NoTrackedRemains
            /\ (profile.Watchdog = {} \/ watchdog # "running")
            /\ profile.AutoShutdown = "yes")]_vars

(* C2: once shutdown() has been entered, by either caller and at any point  *)
(* of the run, init eventually exits (the server is closed, Run returns).   *)
C2_ShutdownLeadsToExit == (sd.calls # {}) ~> (pc = "exited")

(* C2 witness: shutdown() has run to its end, has set the flag, and has     *)
(* left the server open because st.ipcServer was still nil.                 *)
C2_Witness ==
    /\ shutdownRequested
    /\ reaper.pc = "idle"
    /\ sigTask \in {"off", "recv"}
    /\ sd.close = 0
    /\ pc = "serving"

(* C3: over all invocations of shutdown(), at most one sends SIGINT to the  *)
(* children, at most one runs xpra stop, at most one closes the server.     *)
C3_ShutdownOnce == sd.sigint <= 1 /\ sd.xpraStop <= 1 /\ sd.close <= 1

(* C4: a SIGTERM or SIGINT delivered after signal.Notify eventually makes   *)
(* processSignals run shutdown() (unless init has exited before).           *)
C4_SignalLeadsToShutdown ==
    (sigs.delivered > 0) ~> ("sig" \in sd.calls \/ pc = "exited")

(* C4 witness: a signal delivered during bootstrap has been dropped and     *)
(* init is serving, no shutdown() having run.                               *)
C4_Witness ==
    /\ sigs.dropped > 0
    /\ pc = "serving"
    /\ sd.calls = {}

(* C5: OK is written only after xpra has printed "xpra is ready." (X server *)
(* enabled) and after the terminal-server ready wait has completed          *)
(* (sandboxed terminal).                                                    *)
C5_OkAfterReady ==
    OkWritten =>
        /\ profile.XServerEnabled => xpra.seenReady
        /\ profile.IsSandboxedTerminal => (term.monitor # "none" /\ termReady = 0)

(* C5 witness: OK is written with the X server enabled and xpra never       *)
(* having reported ready.                                                   *)
C5_Witness == OkWritten /\ profile.XServerEnabled /\ ~xpra.seenReady

(* C6: after a fatal bootstrap error OK is never written and init exits     *)
(* with no other status than 1.                                             *)
C6_FatalErrorExits ==
    bootErrors # {} => (~OkWritten /\ exitStatus \in {-1, 1})

(* C6 witness: xpra failed to start and OK is written all the same.         *)
C6_Witness == "xpra" \in bootErrors /\ OkWritten

(* C7: nothing of the filesystem is changed (no build step, no bind, no     *)
(* file written) before WAITING is written and SIGUSR1 is received.         *)
C7_NoMutationBeforeReady ==
    (fsLog # <<>> \/ bound # <<>> \/ files # {}) => (WaitingWritten /\ usr1.received)

(* C7 witness: the build has run and init has written its files, after the  *)
(* parent's signal.                                                         *)
C7_Witness == fsLog # <<>> /\ bound # <<>> /\ files # {} /\ usr1.sent

(* C8: init gets past parseArgs only with getuid 0, getpid 1, user.uid      *)
(* equal to uid and uid not 0; when one of these fails it exits with        *)
(* status 1, WAITING not written and no initState built.                    *)
C8_HandshakeAccept ==
    LET valid == /\ osEnv.getuid = 0
                 /\ osEnv.getpid = 1
                 /\ Atoi(initData.UserUid) = initData.Uid
                 /\ initData.Uid # 0
    IN  /\ (WaitingWritten \/ st = "built" \/ pc \notin {"parseArgs", "exited"}) => valid
        /\ (~valid /\ pc # "parseArgs") =>
               (exitStatus = 1 /\ ~WaitingWritten /\ st = "nil" /\ fsLog = <<>>)

(* C8 witness: a handshake has been accepted, and WAITING is written.       *)
C8_Witness == WaitingWritten /\ initData.Uid = 10 /\ initData.UserUid = <<1, 0>>

(* the order of the build steps, for the inputs of the run *)
BuildOrder ==
    <<"rootfs">>
    \o (IF initData.Ephemeral THEN <<"filter">> ELSE <<>>)
    \o <<"bind_extra", "bind_profile", "symlinks", "bl_extra", "bl_profile">>
    \o (IF profile.XServerEnabled THEN <<"xbind">> ELSE <<>>)
    \o <<"chroot">>
    \o (IF config.UseFullDev THEN <<"dev_full", "dev_shm">> ELSE <<>>)
    \o <<"dev_pts">>
    \o (IF profile.NoSysProc THEN <<>> ELSE <<"proc", "sys">>)

(* C9: the steps executed are always a prefix of the fixed order; after a   *)
(* failing step the build has returned (no step can follow); a build that   *)
(* returns without error has executed the whole order.                      *)
C9_FixedOrderAbort ==
    /\ IsPrefixOf(fsLog, BuildOrder)
    /\ fsErr => pc \in {"fs_done", "exited"}
    /\ (pc = "fs_done" /\ ~fsErr) => fsLog = BuildOrder

(* C9 witness: the build has returned the error of the chroot step.         *)
C9_Witness ==
    /\ fsErr
    /\ pc = "fs_done"
    /\ fsLog # <<>>
    /\ fsLog[Len(fsLog)] = "chroot"

(* C10: with ephemeral set, no item of profile.Whitelist that is bound has  *)
(* a path or a target beginning with ${HOME} or ${XDG_, and once the        *)
(* filters have run no such shared folder is left.                          *)
C10_NoEphemeralBound ==
    initData.Ephemeral =>
        /\ \A i \in 1..Len(bound) :
               bound[i].src = "profile" =>
                   (~HomeOrXdg(bound[i].item.Path) /\ ~HomeOrXdg(bound[i].item.Target))
        /\ pc # "extras" =>
               \A j \in 1..Len(profile.SharedFolders) : ~HomeOrXdg(profile.SharedFolders[j])

(* C10 witness: with ephemeral set, an item whose path begins with ${HOME}  *)
(* and whose target does not has been bound.                                *)
C10_Witness ==
    /\ initData.Ephemeral
    /\ \E i \in 1..Len(bound) :
          /\ bound[i].src = "profile"
          /\ HomeOrXdg(bound[i].item.Path)
          /\ bound[i].item.Target # <<>>

----------------------------------------------------------------------------
(* Launch properties, checked under SpecLaunch. *)
Spawned == launch.pid # 0
SpawnedBase == Base(launch.cmd.argv[1])
WrapperInArgv ==
    \E i \in 1..Len(launch.cmd.argv) : launch.cmd.argv[i] \in {OzSeccomp, OzTracer}

(* C11: for every launch that spawned a program, seccomp mode whitelist or  *)
(* blacklist with enforce makes the basename of the spawned program         *)
(* oz-seccomp; without enforce, and for mode train, the basename is         *)
(* oz-seccomp-tracer; with seccomp disabled neither wrapper is anywhere in  *)
(* the spawned argv.  launchApplication and launchTerminalServer keep this; *)
(* launchTerminalApplication spawns gnome-terminal whatever the mode.       *)
C11_SeccompWrapping ==
    Spawned =>
       /\ (profile.SeccompMode \in {"whitelist", "blacklist"} /\ profile.SeccompEnforce)
             => SpawnedBase = "oz-seccomp"
       /\ (\/ profile.SeccompMode \in {"whitelist", "blacklist"} /\ ~profile.SeccompEnforce
           \/ profile.SeccompMode = "train")
             => SpawnedBase = "oz-seccomp-tracer"
       /\ profile.SeccompMode = "disabled" => ~WrapperInArgv

C11_Witness ==
    /\ Spawned
    /\ launch.kind = "plain"
    /\ profile.SeccompMode = "whitelist" /\ profile.SeccompEnforce
    /\ SpawnedBase = "oz-seccomp"
    /\ launch.cmd.argv[3] = <<"usr", "bin", "editor">>

(* C12 as stated: a RunShell request of a peer with uid 0 is answered with  *)
(* Error, no shell spawned and the registry as it was, if and only if       *)
(* config.AllowRootShell is false.                                          *)
ShellAnswered == rsh.pc = "idle" /\ rsh.reply # "none"
ShellRejected == rsh.reply = "Error" /\ rsh.pid = 0 /\ children = rsh.before

C12_AsStated ==
    (ShellAnswered /\ rsh.ucred.present /\ rsh.ucred.Uid = 0)
       => (ShellRejected <=> config.AllowRootShell = FALSE)

(* C12: a RunShell request without peer credentials is always rejected      *)
(* (answered with Error, no shell spawned, registry unchanged); one of a    *)
(* peer with uid 0 is rejected whenever config.AllowRootShell is false, and *)
(* when it is true the request is let through: it is answered Error, with   *)
(* no shell, only because the pty or the shell could not be started.        *)
C12_RootShellRejected ==
    ShellAnswered =>
       /\ ~rsh.ucred.present => ShellRejected
       /\ (rsh.ucred.present /\ rsh.ucred.Uid = 0) =>
             /\ config.AllowRootShell = FALSE => ShellRejected
             /\ config.AllowRootShell = TRUE =>
                   (ShellRejected <=> rsh.msg = "ptyStart")
       /\ rsh.reply = "Error" => rsh.pid = 0 /\ children = rsh.before

C12_Witness ==
    /\ ShellAnswered
    /\ rsh.ucred.present /\ rsh.ucred.Uid = 0
    /\ config.AllowRootShell = FALSE
    /\ ShellRejected
    /\ rsh.msg = "Cannot open shell because allowRootShell is disabled"
    /\ rsh.served = 2
    /\ \E p \in Pids : children[p] = "untracked"

(* C13: every application spawned by launchApplication or                   *)
(* launchTerminalApplication runs with the uid and gid of the handshake,    *)
(* with the gids of the handshake gids map as supplementary groups (the     *)
(* code puts st.gid in front of them), and in the requested pwd when that   *)
(* is non-empty and exists, and in user.HomeDir otherwise.  The launchers   *)
(* leave cmd.Dir unset when the directory they settled on does not exist;   *)
(* the property is stated for a home directory that exists.                 *)
C13_CredentialsAndCwd ==
    (Spawned /\ launch.kind \in {"plain", "terminal"} /\ initData.HomeDir \in files) =>
       /\ launch.cmd.uid = initData.Uid
       /\ launch.cmd.gid = initData.Gid
       /\ {initData.Gids[n] : n \in DOMAIN initData.Gids} \subseteq launch.cmd.groups
       /\ launch.cmd.groups \subseteq
             {initData.Gids[n] : n \in DOMAIN initData.Gids} \cup {initData.Gid}
       /\ launch.cmd.dir = IF launch.req.pwd # "" /\ launch.req.pwd \in files
                           THEN launch.req.pwd
                           ELSE initData.HomeDir

C13_Witness ==
    /\ Spawned
    /\ launch.kind = "terminal"
    /\ launch.req.pwd = "/work"
    /\ launch.cmd.dir = "/work"
    /\ launch.cmd.uid = 1000
    /\ launch.cmd.groups = {1000, 29}

(* C14: a child the launcher has inserted in the registry is tracked when   *)
(* it is the primary application (launchApplication) or a terminal          *)
(* application (launchTerminalApplication), and untracked when it is the    *)
(* terminal server (launchTerminalServer).  The code passes false for the   *)
(* terminal application and true for the terminal server.                   *)
Inserted == Spawned /\ launch.pc \in {"respond", "idle", "returned"}

C14_TrackedByRole ==
    Inserted =>
       /\ launch.kind \in {"plain", "terminal"} => children[launch.pid] = "tracked"
       /\ launch.kind = "termserver" => children[launch.pid] = "untracked"

C14_Witness ==
    /\ Inserted
    /\ launch.kind = "plain"
    /\ children[launch.pid] = "tracked"
    /\ launch.reply = "Ok"

(* C15: once the reaper has handled the exit of pid p (the child is reaped  *)
(* and handleChildExit is no longer at work on p), the registry holds no    *)
(* entry for p, whatever the interleaving of the launching handler and the  *)
(* reaper.  A launcher registers the child after cmd.Start() returned, and  *)
(* the child may exit and be reaped in between.                             *)
ExitHandled(p) == proc[p] = "reaped" /\ (reaper.pid # p \/ reaper.pc = "idle")

C15_NoEntryAfterReap ==
    \A p \in Pids : ExitHandled(p) => children[p] = "absent"

C15_Witness ==
    \E p \in Pids :
       /\ ExitHandled(p)
       /\ children[p] = "absent"
       /\ \E r \in ReqIds : reqs[r].pid = p /\ reqs[r].pc = "done"

(* C16: every access to the child registry (the insert, the delete, the     *)
(* read of a child's track flag, the loop over the remaining children, the  *)
(* snapshot) is made by a task that holds st.lock, so that the insert of an *)
(* IPC handler never overlaps a read of the registry by handleChildExit.    *)
(* The two reads of handleChildExit take no lock.                           *)
RegAccessing(t) ==
    CASE t = "handler"  -> reg.h = "insert"
      [] t = "reaper"   -> reg.r \in {"readTrack", "delete", "iterate"}
      [] t = "shutdown" -> reg.s = "copy"

C16_AccessUnderLock ==
    /\ \A t \in {"handler", "reaper", "shutdown"} : RegAccessing(t) => reg.lock = t
    /\ ~(reg.h = "insert" /\ reg.r \in {"readTrack", "iterate"})

C16_Witness ==
    /\ reg.h = "insert" /\ reg.lock = "handler"
    /\ reg.r = "lock"
    /\ reg.s = "idle"

(* C17: a RunProgram request gets one reply, sent when the handler ends and *)
(* not before; with profile.IsSandboxedTerminal the terminal application    *)
(* launcher is invoked, otherwise the plain launcher is invoked if and only *)
(* if no_exec is false; the reply is Error if and only if the invoked       *)
(* launcher failed and Ok otherwise; the reply does not wait for the        *)
(* program to exit (the child of an answered request is still running).     *)
RunProgramInProgress == launch.kind # "termserver" /\ launch.pc \in {"start", "add", "respond"}
RunProgramAnswered == launch.kind # "termserver" /\ launch.pc = "idle" /\ launch.served > 0

C17_RunProgramReply ==
    /\ RunProgramInProgress => launch.reply = "none"
    /\ (RunProgramInProgress \/ RunProgramAnswered) =>
          /\ launch.kind = "terminal" <=> profile.IsSandboxedTerminal
          /\ ~profile.IsSandboxedTerminal =>
                (launch.kind = "plain" <=> launch.req.noexec = FALSE)
    /\ RunProgramAnswered =>
          /\ launch.reply \in {"Ok", "Error"}
          /\ launch.reply = "Error" <=> (launch.kind # "none" /\ launch.err)
          /\ launch.reply = "Error" => launch.pid = 0
          /\ (launch.reply = "Ok" /\ launch.kind # "none") =>
                /\ launch.pid # 0
                /\ proc[launch.pid] = "running"
                /\ children[launch.pid] # "absent"

C17_Witness ==
    /\ RunProgramAnswered
    /\ launch.served = 2
    /\ launch.kind = "plain"
    /\ launch.reply = "Error"
    /\ \E p \in Pids : proc[p] = "running" /\ children[p] = "tracked"

(* C18: a SetupForwarder request is accepted (answered Ok, its accept task  *)
(* started) only when it carries exactly one ancillary descriptor; with     *)
(* none or with more than one no task is started and the answer is Error,   *)
(* and init goes on serving.  The handler tests for zero descriptors only   *)
(* and takes msg.Fds[0] of any longer list.                                 *)
FwdHandled(r) == r < fwd.cur \/ (r = fwd.cur /\ fwd.pc = "idle")

C18_ExactlyOneFd ==
    \A r \in FwdIds :
       /\ (r <= fwd.cur /\ fwd.nfds[r] # 1) => fwd.task[r] = "none"
       /\ (FwdHandled(r) /\ fwd.nfds[r] # 1) => fwd.reply[r] = "Error" /\ Alive
       /\ fwd.reply[r] = "Ok" => fwd.nfds[r] = 1

C18_Witness ==
    /\ FwdHandled(1) /\ fwd.nfds[1] = 0 /\ fwd.reply[1] = "Error" /\ fwd.task[1] = "none"
    /\ FwdHandled(2) /\ fwd.nfds[2] = 1 /\ fwd.reply[2] = "Ok" /\ fwd.task[2] = "accept"
    /\ Alive

(* C19: a SetupForwarder request that was answered Ok has one running       *)
(* accept task on the adopted listener: Ok is sent only once the loop is    *)
(* armed, never when adopting the descriptor failed.  The handler replies   *)
(* right after starting the task, whatever becomes of net.FileListener.     *)
C19_OkMeansLoopArmed ==
    \A r \in FwdIds : fwd.reply[r] = "Ok" => fwd.task[r] = "accept"

C19_Witness ==
    \E r \in FwdIds :
       /\ fwd.reply[r] = "Ok"
       /\ fwd.task[r] = "accept"
       /\ \E i \in 1..Len(fwd.proxies) : fwd.proxies[i].req = r /\ fwd.proxies[i].pc = "copy"

(* C20: when dialing the internal target failed for an accepted connection  *)
(* the failure is logged and the accepted socket is closed.  proxyForwarder *)
(* returns the error to nobody and leaves the socket as it is.              *)
C20_DialFailureClosesSocket ==
    \A i \in 1..Len(fwd.proxies) :
       (fwd.proxies[i].pc = "dialFailed" /\ fwd.proxies[i].conn # "nil") =>
          /\ fwd.proxies[i].logged
          /\ fwd.proxies[i].conn = "closed"

C20_Witness ==
    \E i \in 1..Len(fwd.proxies) :
       /\ fwd.proxies[i].pc = "dialFailed"
       /\ fwd.proxies[i].conn = "open"
       /\ fwd.reply[fwd.proxies[i].req] = "Ok"

(* C21: for a proxied connection, once the client side or the target side   *)
(* has reached end of file or closed, both copy loops eventually end and    *)
(* both sockets are eventually closed.                                      *)
ProxySideEnded == fwd.client = "eof" \/ fwd.target = "eof"
ProxyReleased ==
    /\ \A l \in Loops : fwd.loop[l] = "done"
    /\ fwd.conn = "closed" /\ fwd.rConn = "closed"

C21_ProxyReleased == ProxySideEnded ~> ProxyReleased

C21_Witness ==
    /\ ProxyReleased
    /\ fwd.client = "eof" /\ fwd.target = "open"
    /\ fwd.delivered["up"] = 1

(* C22: for every launch that executes the application (launchApplication,  *)
(* and launchTerminalApplication unless no_exec asks for the shell), the    *)
(* target is the requested path, or profile.Path when that is empty, and    *)
(* the arguments passed to it are profile.DefaultParams followed by the     *)
(* caller's args, or profile.DefaultParams alone when                       *)
(* profile.RejectUserArgs is true.                                          *)
LaunchTarget ==
    CASE launch.kind = "termserver" -> TerminalServer
      [] launch.req.path = <<>>     -> profile.Path
      [] OTHER                      -> launch.req.path
TargetIndex ==
    CHOOSE i \in 1..(Len(launch.cmd.argv) + 1) :
       /\ i <= Len(launch.cmd.argv) => launch.cmd.argv[i] = LaunchTarget
       /\ \A j \in 1..(i - 1) : launch.cmd.argv[j] # LaunchTarget
ArgsAfterTarget == SubSeq(launch.cmd.argv, TargetIndex + 1, Len(launch.cmd.argv))
ExecutesApplication ==
    \/ launch.kind = "plain"
    \/ launch.kind = "terminal" /\ ~launch.req.noexec

ModeFlag ==
    CASE profile.SeccompMode = "train"     -> Word("-mode=train")
      [] profile.SeccompMode = "whitelist" -> Word("-mode=whitelist")
      [] profile.SeccompMode = "blacklist" -> Word("-mode=blacklist")
      [] OTHER                             -> Word("")
TracerWrapped ==
    \/ profile.SeccompMode = "train"
    \/ profile.SeccompMode \in {"whitelist", "blacklist"} /\ ~profile.SeccompEnforce
Enforced == profile.SeccompMode \in {"whitelist", "blacklist"} /\ profile.SeccompEnforce
TargetAndArgs ==
    <<LaunchTarget>> \o (IF launch.kind = "termserver" THEN <<>>
                         ELSE launchArgs(launch.req.args))

C27_WrapperArgv ==
    (Spawned /\ launch.kind \in {"plain", "termserver"}) =>
       /\ TracerWrapped =>
             launch.cmd.argv = <<OzTracer, OzSeccomp, ModeFlag>> \o TargetAndArgs
       /\ Enforced =>
             launch.cmd.argv = <<OzSeccomp, ModeFlag>> \o TargetAndArgs

C27_Witness ==
    /\ Spawned
    /\ launch.kind = "plain"
    /\ profile.SeccompMode = "blacklist" /\ ~profile.SeccompEnforce
    /\ launch.req.args = <<Word("a.txt")>>
    /\ launch.cmd.argv = <<OzTracer, OzSeccomp, Word("-mode=blacklist")>> \o TargetAndArgs

(* C23: on a child exit after which no tracked child remains, with a        *)
(* non-empty profile.Watchdog: when a watchdog process is running the       *)
(* handler does not call shutdown(); otherwise it calls shutdown() if and   *)
(* only if AutoShutdown is yes, whether or not the exiting process was      *)
(* tracked.                                                                 *)
C23_WatchdogPolicy ==
    [][(DecideStep /\ NoTrackedRemains /\ profile.Watchdog # {}) =>
         IF watchdog = "running"
         THEN reaper'.pc # "sd1"
         ELSE (reaper'.pc = "sd1" <=> profile.AutoShutdown = "yes")]_vars

C23_Witness ==
    /\ reaper.pc = "sd1"
    /\ ~reaper.track
    /\ profile.Watchdog # {}
    /\ watchdog = "exited"
    /\ profile.AutoShutdown = "yes"
    /\ NoTrackedRemains

(* C24: the wait for the terminal server ends as soon as one of the two     *)
(* scanner tasks of dbus-monitor's output has fired (the name-acquired line *)
(* for org.gnome.Terminal was read, or the helper exited): it does not need *)
(* the other stream to reach end of file while the helper is running.       *)
(* st.termReady is raised by 2 and each scanner lowers it once, so Wait     *)
(* returns only after both; dbus-monitor is killed after Wait.              *)
ScannerFired == term.stdout = "done" \/ term.stderr = "done"

C24_OneScannerSuffices == (pc = "termWait" /\ ScannerFired) ~> (pc # "termWait")

C24_Witness ==
    /\ pc = "termWait"
    /\ term.stdout = "done"
    /\ term.stderr = "scan"
    /\ term.monitor = "running"
    /\ termReady = 1

(* C25: GetSocketName returns the built-in default or a name matching       *)
(* ^@[A-Za-z0-9_-]+$: a value of OZ_SOCKET_NAME without the leading "@" is  *)
(* given one, a value that is invalid even so gives the default, an unset   *)
(* or empty variable gives the default, and every later call returns the    *)
(* name of the first call whatever the environment has become.              *)
C25_SocketName ==
    cli.calls > 0 =>
       /\ cli.ret = SocketName \/ isSocketName(cli.ret)
       /\ cli.ret = cli.first
       /\ cli.envAtFirst = <<>> => cli.ret = SocketName
       /\ (cli.envAtFirst # <<>> /\ isSocketName(cli.envAtFirst)) =>
             cli.ret = cli.envAtFirst
       /\ (cli.envAtFirst # <<>> /\ cli.envAtFirst[1] # "@") =>
             cli.ret = IF isSocketName(<<"@">> \o cli.envAtFirst)
                       THEN <<"@">> \o cli.envAtFirst ELSE SocketName
       /\ (cli.envAtFirst # <<>> /\ cli.envAtFirst[1] = "@"
              /\ ~isSocketName(cli.envAtFirst)) => cli.ret = SocketName

C25_Witness ==
    /\ cli.calls = 2
    /\ cli.envAtFirst = <<"a", "-">>
    /\ cli.ret = <<"@", "a", "-">>
    /\ cli.env = <<"@", "a">>

(* C26: for a Logs request the reader of the returned channel gets every    *)
(* line of every LogData frame that arrived before the first Ok frame, in   *)
(* the order of the frames and of the lines in them; the channel is closed  *)
(* at the Ok frame and nothing that arrived after it is delivered.  Any     *)
(* other request consumes exactly one response: the first one, and none     *)
(* only when the connection ended before any arrived.                       *)
RECURSIVE FirstOk(_, _)
FirstOk(fs, i) ==
    IF i > Len(fs) THEN 0
    ELSE IF fs[i].type = "Ok" THEN i ELSE FirstOk(fs, i + 1)

RECURSIVE LinesOf(_)
LinesOf(fs) ==
    IF fs = <<>> THEN <<>>
    ELSE (IF Head(fs).type = "LogData" THEN Head(fs).lines ELSE <<>>) \o LinesOf(Tail(fs))

IsLogLine(x) == x # Unexpected
GotLines == SelectSeq(cli.got, IsLogLine)
BeforeOk ==
    IF FirstOk(cli.arrived, 1) = 0 THEN cli.arrived
    ELSE SubSeq(cli.arrived, 1, FirstOk(cli.arrived, 1) - 1)

C26_LogsStream ==
    /\ cli.kind = "logs" =>
          /\ IsPrefixOf(GotLines, LinesOf(BeforeOk))
          /\ cli.closed <=> (FirstOk(cli.arrived, 1) # 0 /\ cli.next > FirstOk(cli.arrived, 1))
          /\ cli.closed => (GotLines = LinesOf(BeforeOk) /\ cli.cur = <<>> /\ cli.done)
          /\ cli.closed => cli.next = FirstOk(cli.arrived, 1) + 1
    /\ cli.kind = "other" =>
          /\ cli.next <= 2
          /\ cli.next = 2 => (cli.done /\ cli.resp = <<cli.arrived[1]>>)
          /\ (cli.done /\ cli.next = 1) =>
                (cli.lost /\ cli.arrived = <<>> /\ cli.resp = <<>>)
          /\ cli.got = <<>>

C26_Witness ==
    /\ cli.kind = "logs"
    /\ cli.closed
    /\ Len(cli.arrived) = 3
    /\ cli.arrived[2].type = "Ok"
    /\ cli.arrived[3].type = "LogData" /\ cli.arrived[3].lines # <<>>
    /\ cli.got = <<"b", "a">>

(* C28: a RunShell request that is let through and whose shell starts adds  *)
(* exactly one entry to the registry, an untracked one under the pid of the *)
(* shell, and is answered Ok with one descriptor, the master side of the    *)
(* pty; when the pty or the shell cannot be started the answer is an Error  *)
(* with the message of the failure, no descriptor is sent and the registry  *)
(* is as the request found it.                                              *)
ShellLetThrough == runShellRejection(rsh.ucred) = "none"

C28_ShellSpawnReply ==
    (ShellAnswered /\ ShellLetThrough) =>
       /\ rsh.pid # 0 =>
             /\ rsh.reply = "Ok" /\ rsh.fd
             /\ rsh.before[rsh.pid] = "absent"
             /\ children = [rsh.before EXCEPT ![rsh.pid] = "untracked"]
             /\ proc[rsh.pid] = "running"
       /\ rsh.pid = 0 =>
             /\ rsh.reply = "Error" /\ rsh.msg = "ptyStart"
             /\ ~rsh.fd
             /\ children = rsh.before

C28_Witness ==
    /\ ShellAnswered /\ ShellLetThrough
    /\ rsh.reply = "Ok" /\ rsh.fd
    /\ rsh.pid # 0
    /\ \E q \in Pids : q # rsh.pid /\ rsh.before[q] = "untracked"
    /\ \A q \in Pids : children[q] = "untracked"

(* C29: once shutdown() has set its flag and gone through its loop, every   *)
(* child in the registry has been sent SIGINT, the children registered by a *)
(* handler during or after shutdown() included: no child of init is left    *)
(* running and registered without the signal.                               *)
ShutdownSignalled == shutdownRequested
Unsignalled(p) == children[p] # "absent" /\ proc[p] = "running" /\ p \notin sd.signalled

C29_EveryChildSignalled ==
    ShutdownSignalled => \A p \in Pids : ~Unsignalled(p)

C29_Witness ==
    /\ ShutdownSignalled
    /\ sd.signalled # {}
    /\ \E p \in sd.signalled : proc[p] = "running"
    /\ \A p \in Pids : ~Unsignalled(p)

(* C30: the wait for the parent loses no wake-up: a SIGUSR1 the parent      *)
(* sends at any moment after it has read the WAITING line, the moments      *)
(* before init has called signal.Notify included, is received by init,      *)
(* which then goes on to runInit.                                           *)
ParentSignalled == usr1.sent
ParentObserved == usr1.received

C30_WakeUpNotLost == ParentSignalled ~> ParentObserved

C30_Witness ==
    /\ ParentSignalled
    /\ ParentObserved
    /\ pc = "runInit"
    /\ stderrOut = <<"WAITING">>

(* C31: no IPC handler runs, and so no requested program is spawned or      *)
(* registered, before the filesystem build has gone through its whole order *)
(* (chroot and mounts included) without error and OK has been written,      *)
(* although the control socket exists since the start of runInit.  The      *)
(* RunProgram handler stands for the three handlers: they are all called    *)
(* from the same serving loop.                                              *)
HandlerStarted == \E r \in ReqIds : reqs[r].pc # "none"

C31_NoHandlerBeforeOk ==
    HandlerStarted => (OkWritten /\ ~fsErr /\ fsLog = BuildOrder)

C31_Witness ==
    /\ \E r \in ReqIds : reqs[r].pc = "done" /\ reqs[r].pid # 0 /\ children[reqs[r].pid] # "absent"
    /\ OkWritten
    /\ fsLog = BuildOrder
    /\ Len(bound) > 0

(* C32: the bootstrap does not wait for ever for xpra: when xpra ends (its   *)
(* stderr reaches end of file) without having printed "xpra is ready.",     *)
(* init leaves the wait of runInit:598, to go on or to exit.                *)
XpraGoneUnready == xpra.proc = "exited" /\ ~xpra.seenReady

C32_XpraWaitEnds == (pc = "xpraWait" /\ XpraGoneUnready) ~> (pc # "xpraWait")

C32_Witness ==
    /\ pc = "xpraWait"
    /\ XpraGoneUnready
    /\ xpraReady = 1
    /\ helpers = 0 /\ reaper.pc = "idle"
    /\ ~OkWritten /\ Alive

(* C33: the child-exit handler does not call shutdown() before a tracked    *)
(* child has been registered: the exit of a helper reaped during the        *)
(* bootstrap, or of a pid that never was in the registry, does not shut the *)
(* sandbox down, with an empty or a non-empty watchdog list.                *)
TrackedRegistered ==
    \/ term.pid # 0 /\ pc # "termAdd"
    \/ \E r \in ReqIds : reqs[r].route = "plain" /\ reqs[r].pc = "done" /\ reqs[r].pid # 0

ReaperShutsDown == reaper.pc \in {"sd1", "sd2", "sd3"} \/ "reaper" \in sd.calls

C33_NoShutdownBeforeTracked == ReaperShutsDown => TrackedRegistered

C33_Witness ==
    /\ ReaperShutsDown
    /\ TrackedRegistered
    /\ profile.Watchdog # {}
    /\ OkWritten

(* C34: ProfileHasEphemerals(p) is true exactly when the ephemeral filters  *)
(* would drop something from p: when some whitelist item with a path is     *)
(* ephemeral, or some shared folder begins with ${HOME} or ${XDG_.          *)
FilterDrops(p) ==
    \/ filterWhitelist(p.Whitelist, Len(p.Whitelist)) # p.Whitelist
    \/ filterSharedFolders(p.SharedFolders, Len(p.SharedFolders)) # p.SharedFolders

C34_HasEphemeralsIffDropped ==
    cli.pc = "returned" => (cli.ret <=> FilterDrops(cli.p))

C34_Witness ==
    /\ cli.pc = "returned"
    /\ cli.ret
    /\ FilterDrops(cli.p)
    /\ Len(cli.p.Whitelist) = 2
    /\ ~whitelistItemIsEphemeral(cli.p.Whitelist[1])
    /\ cli.p.SharedFolders = <<>>

(* C35: the channel Logs returns is closed whenever the stream of responses *)
(* ends, also when rr.Chan() is closed because the connection was lost      *)
(* before an Ok frame: the reader of the channel is not left waiting.       *)
StreamEnded == cli.kind = "logs" /\ cli.lost

C35_LogsChannelClosed == StreamEnded ~> cli.closed

C35_Witness ==
    /\ StreamEnded
    /\ cli.pc = "returned"
    /\ ~cli.closed
    /\ FirstOk(cli.arrived, 1) = 0
    /\ cli.got = <<"a", "b">>

(* C36: for every configuration file the argument vector parseOpenVPNConf   *)
(* returns starts with --client, ends with the fixed trailer of line 260,   *)
(* and between the two holds no option --D for a filtered directive D,      *)
(* whatever strings the lines hold; --auth-nocache and --auth-user-pass     *)
(* stand there only as the three strings the function itself puts there,    *)
(* with the auth file it was given.                                         *)
OvpnReturned == cli.pc = "returned" /\ ~cli.ret.err
OvpnBodyEnd == Len(cli.ret.argv) - Len(OvpnExtra)
FilteredDirectives == DroppedDirectives \cup {"auth-user-pass"}

OwnAuthAt(k) ==
    /\ k + 2 <= OvpnBodyEnd
    /\ cli.ret.argv[k] = Opt("auth-nocache")
    /\ cli.ret.argv[k + 1] = Opt("auth-user-pass")
    /\ cli.ret.argv[k + 2] = ConfDirPath(<<"auth">>)

C36_FilteredNeverPassed ==
    OvpnReturned =>
       /\ OvpnBodyEnd >= 1
       /\ cli.ret.argv[1] = Opt("client")
       /\ SubSeq(cli.ret.argv, OvpnBodyEnd + 1, Len(cli.ret.argv)) = OvpnExtra
       /\ \A k \in 2..OvpnBodyEnd :
             (\E d \in FilteredDirectives : cli.ret.argv[k] = Opt(d)) =>
                (OwnAuthAt(k) \/ (k > 2 /\ OwnAuthAt(k - 1)))

C36_Witness ==
    /\ OvpnReturned
    /\ cli.conf = << <<<<"up">>, <<"remote">>>>, <<<<"remote">>, <<"up", "#", "x">>>> >>
    /\ cli.ret.argv = <<Opt("client"), Opt("remote"), <<"up">>>> \o OvpnExtra

====
